---------------------------- MODULE Spec2Model ----------------------------
(***************************************************************************)
(* Reconstruction pipeline of AR_Memory_Reconstructor:                     *)
(*   backend/services/depth_estimator.py   (DepthEstimator)                *)
(*   backend/services/scene_generator.py   (SceneGenerator)                *)
(* Floating point values are modelled as exact rationals <<num, den>>,     *)
(* den > 0, in lowest terms; the IEEE not-a-number produced by 0/0 is the  *)
(* pair <<0, 0>>.  Arrays are flattened row-major sequences, as reshape(-1)*)
(* lays them out.                                                          *)
(***************************************************************************)
EXTENDS Integers, Sequences, FiniteSets, TLC

(***************************************************************************)
(* Bounds of the model.                                                    *)
(***************************************************************************)
MaxPixels == 3

(***************************************************************************)
(* Rational arithmetic.                                                    *)
(***************************************************************************)
Abs(i) == IF i < 0 THEN -i ELSE i

RECURSIVE GCD(_, _)
GCD(a, b) == IF b = 0 THEN a ELSE GCD(b, a % b)

NaN == <<0, 0>>

IsNaN(r) == r[2] = 0

\* the rational n/d (d # 0) in lowest terms with a positive denominator
Rat(n, d) ==
    LET g == GCD(Abs(n), Abs(d))
        s == IF d < 0 THEN -1 ELSE 1
    IN  <<(s * n) \div g, (s * d) \div g>>

RInt(i) == <<i, 1>>

RAdd(a, b) ==
    IF IsNaN(a) \/ IsNaN(b) THEN NaN
    ELSE LET g == GCD(a[2], b[2])
         IN  Rat(a[1] * (b[2] \div g) + b[1] * (a[2] \div g), (a[2] \div g) * b[2])

RNeg(a) == IF IsNaN(a) THEN NaN ELSE <<-a[1], a[2]>>

RSub(a, b) == RAdd(a, RNeg(b))

RMul(a, b) ==
    IF IsNaN(a) \/ IsNaN(b) THEN NaN
    ELSE LET g1 == GCD(Abs(a[1]), b[2])
             g2 == GCD(Abs(b[1]), a[2])
         IN  Rat((a[1] \div g1) * (b[1] \div g2), (a[2] \div g2) * (b[2] \div g1))

\* numpy true division: 0/0 is nan (with a RuntimeWarning, no exception).
\* A nonzero value is never divided by zero in the modelled code.
RDiv(a, b) ==
    IF IsNaN(a) \/ IsNaN(b) THEN NaN
    ELSE IF b[1] = 0 THEN NaN
    ELSE RMul(a, Rat(b[2], b[1]))

\* comparisons involving nan are False, as in IEEE arithmetic
RLt(a, b) == ~IsNaN(a) /\ ~IsNaN(b) /\ a[1] * b[2] < b[1] * a[2]

RLe(a, b) == ~IsNaN(a) /\ ~IsNaN(b) /\ a[1] * b[2] <= b[1] * a[2]

REq(a, b) == ~IsNaN(a) /\ ~IsNaN(b) /\ a = b

\* Python's min(a, b): b if b < a else a
RMin2(a, b) == IF RLt(b, a) THEN b ELSE a

\* Python's max(a, b): b if b > a else a
RMax2(a, b) == IF RLt(a, b) THEN b ELSE a

\* ndarray.min() / ndarray.max() of a non-empty array: nan propagates
RECURSIVE SeqMin(_)
SeqMin(s) ==
    IF Len(s) = 1 THEN s[1]
    ELSE LET m == SeqMin(Tail(s))
         IN  IF IsNaN(s[1]) \/ IsNaN(m) THEN NaN
             ELSE IF RLt(s[1], m) THEN s[1] ELSE m

RECURSIVE SeqMax(_)
SeqMax(s) ==
    IF Len(s) = 1 THEN s[1]
    ELSE LET m == SeqMax(Tail(s))
         IN  IF IsNaN(s[1]) \/ IsNaN(m) THEN NaN
             ELSE IF RLt(m, s[1]) THEN s[1] ELSE m

RECURSIVE SeqSum(_)
SeqSum(s) == IF s = <<>> THEN RInt(0) ELSE RAdd(s[1], SeqSum(Tail(s)))

\* the indices of s whose element satisfies Test, in increasing order
RECURSIVE SelectIdx(_, _, _)
SelectIdx(mask, i, acc) ==
    IF i > Len(mask) THEN acc
    ELSE SelectIdx(mask, i + 1, IF mask[i] THEN Append(acc, i) ELSE acc)

\* numpy boolean-mask indexing a[mask]
Masked(a, mask) ==
    LET idx == SelectIdx(mask, 1, <<>>)
    IN  [k \in 1..Len(idx) |-> a[idx[k]]]


(***************************************************************************)
(* State.                                                                  *)
(*   image        the decoded photograph: [h, w, pix] with pix the RGB     *)
(*                triples in row-major order, or NoImage when the path     *)
(*                cannot be decoded (cv2.imread returns None)              *)
(*   depth_map    the depth map a stage works on (values are rationals)    *)
(* DepthEstimator.estimate_depth:                                          *)
(*   d_pc         position in estimate_depth                               *)
(*   depth_model  "loaded" or "None" (self.depth_model)                    *)
(*   enhanced     the enhanced argument                                    *)
(*   normalized   the map estimate_depth returns                           *)
(*   steps        the processing steps applied so far, in order            *)
(* SceneGenerator.generate_3d_scene and the two projections:               *)
(*   s_pc              position in generate_3d_scene                       *)
(*   image_analysis    the analysis dict (a record; a key that is absent   *)
(*                     is not in its DOMAIN)                               *)
(*   camera_params     argument of DepthEstimator.create_point_cloud       *)
(*   extend_background the extend_background argument                      *)
(*   points, colors    the point cloud                                     *)
(*   mesh_data         the mesh dict under construction                    *)
(*   mesh_path         which reconstruction ran: "none", "poisson",        *)
(*                     "fallback"                                          *)
(*   result            what generate_3d_scene returned                     *)
(* Grid triangulation of _create_simple_mesh on its own:                   *)
(*   n_points, grid_faces, g_pc                                            *)
(* SceneGenerator.optimize_lighting, called on the returned scene:         *)
(*   opt_calls         the quality score each call so far has read         *)
(* ARExporter.export_ar_scene:                                             *)
(*   e_pc              position in export_ar_scene                         *)
(*   scene_data        the scene_data argument                             *)
(*   path_arg          the output_path argument (a sequence of characters) *)
(*   output_path       the output_path local, reassigned for an extension  *)
(*                     that is not recognised                              *)
(*   writable          whether files can be created at the target          *)
(*   exported          the file written: [path, file_type, content]        *)
(*   returned_path     what export_ar_scene returned                       *)
(* ImageProcessor.analyze_image:                                           *)
(*   a_pc              position in analyze_image                           *)
(*   measured          what the cv2 / numpy measurements of the image give *)
(*   a_analysis        the analysis dict under construction                *)
(*   a_result          what analyze_image returned                         *)
(* SceneGenerator._generate_mesh on surfaces of any size:                  *)
(*   recon_faces       len(faces) of the Poisson surface, -1 before the    *)
(*                     reconstruction                                      *)
(* The Flask application (app.py) and its session store:                   *)
(*   processing_status the module-level dict, session id -> status dict    *)
(*   db                "None" when Database() failed at start-up,          *)
(*                     "connected", or "lost" once the driver raises       *)
(*   db_sessions       the sessions collection, session id -> document     *)
(*   db_results        the results collection, session id -> document      *)
(*   files             the files on disk, <<folder, session id, suffix>>   *)
(*   handlers          the start_processing requests so far, each with     *)
(*                     its position in the handler and its answer          *)
(*   threads           the pipeline threads started so far, each with its  *)
(*                     position in process_image_pipeline                  *)
(* The answers of the routes are functions of this state.                  *)
(***************************************************************************)
VARIABLES image, depth_map, d_pc, depth_model, enhanced, normalized, steps,
          s_pc, image_analysis, camera_params, extend_background, points,
          colors, mesh_data, mesh_path, result, n_points, grid_faces, g_pc,
          opt_calls, e_pc, scene_data, path_arg, output_path, writable, exported,
          returned_path, a_pc, measured, a_analysis, a_result, recon_faces,
          processing_status, db, db_sessions, db_results, files, handlers,
          threads

depthVars == <<d_pc, depth_model, enhanced, normalized, steps>>

sceneVars == <<s_pc, image_analysis, camera_params, extend_background, points,
               colors, mesh_data, mesh_path, result>>

gridVars == <<n_points, grid_faces, g_pc>>

exportVars == <<e_pc, scene_data, path_arg, output_path, writable, exported,
                returned_path>>

analyzeVars == <<a_pc, measured, a_analysis, a_result>>

appVars == <<processing_status, db, db_sessions, db_results, files, handlers,
             threads>>

laterVars == <<recon_faces, appVars>>

extraVars == <<opt_calls, exportVars, analyzeVars, laterVars>>

vars == <<image, depth_map, depthVars, sceneVars, gridVars, extraVars>>

EmptyDict == [k \in {} |-> 0]

IdleDepth ==
    /\ d_pc = "idle"
    /\ depth_model = "None"
    /\ enhanced = FALSE
    /\ normalized = <<>>
    /\ steps = <<>>

IdleScene ==
    /\ s_pc = "idle"
    /\ image_analysis = EmptyDict
    /\ camera_params = EmptyDict
    /\ extend_background = FALSE
    /\ points = <<>>
    /\ colors = <<>>
    /\ mesh_data = EmptyDict
    /\ mesh_path = "none"
    /\ result = EmptyDict

IdleGrid ==
    /\ n_points = 0
    /\ grid_faces = <<>>
    /\ g_pc = "idle"

IdleExport ==
    /\ e_pc = "idle"
    /\ scene_data = EmptyDict
    /\ path_arg = <<>>
    /\ output_path = <<>>
    /\ writable = TRUE
    /\ exported = EmptyDict
    /\ returned_path = <<>>

IdleAnalyze ==
    /\ a_pc = "idle"
    /\ measured = EmptyDict
    /\ a_analysis = EmptyDict
    /\ a_result = EmptyDict

IdleApp ==
    /\ processing_status = EmptyDict
    /\ db = "None"
    /\ db_sessions = EmptyDict
    /\ db_results = EmptyDict
    /\ files = {}
    /\ handlers = <<>>
    /\ threads = <<>>

IdleLater ==
    /\ recon_faces = -1
    /\ IdleApp

IdleExtra ==
    /\ opt_calls = <<>>
    /\ IdleExport
    /\ IdleAnalyze
    /\ IdleLater

NoImage == [h |-> 0, w |-> 0, pix |-> <<>>]

\* 8-bit RGB triples a pixel is drawn from
PixelVals == {<<128, 128, 128>>, <<255, 0, 64>>}

Shapes == {hw \in (1..MaxPixels) \X (1..MaxPixels) : hw[1] * hw[2] <= MaxPixels}

\* per shape: the constant image of each colour, and the images that
\* alternate between two colours
Images ==
    {[h |-> hw[1], w |-> hw[2], pix |-> [k \in 1..(hw[1] * hw[2]) |-> c]] :
        hw \in Shapes, c \in PixelVals}
    \cup
    {[h |-> hw[1], w |-> hw[2],
      pix |-> [k \in 1..(hw[1] * hw[2]) |-> IF k % 2 = 1 THEN c[1] ELSE c[2]]] :
        hw \in Shapes, c \in {cc \in PixelVals \X PixelVals : cc[1] # cc[2]}}

NumPixels(img) == img.h * img.w

IsConstantImage(img) == \A i, j \in 1..Len(img.pix) : img.pix[i] = img.pix[j]

Zeros(n) == [k \in 1..n |-> RInt(0)]

(***************************************************************************)
(* DepthEstimator._normalize_depth                                         *)
(***************************************************************************)
NormalizeNoGuard(dm) ==
    LET lo == SeqMin(dm)
        hi == SeqMax(dm)
    IN  [k \in 1..Len(dm) |-> RDiv(RSub(dm[k], lo), RSub(hi, lo))]

NormalizeByMax(dm) ==
    LET lo == SeqMin(dm)
        hi == SeqMax(dm)
    IN  IF REq(hi, lo) THEN Zeros(Len(dm))
        ELSE [k \in 1..Len(dm) |-> RDiv(RSub(dm[k], lo), hi)]

_normalize_depth(dm) ==
    LET lo == SeqMin(dm)
        hi == SeqMax(dm)
    IN  IF REq(hi, lo) THEN Zeros(Len(dm))
        ELSE [k \in 1..Len(dm) |-> RDiv(RSub(dm[k], lo), RSub(hi, lo))]

(***************************************************************************)
(* The depth model (transformers pipeline) returns an 8-bit image; any     *)
(* output is possible.                                                     *)
(***************************************************************************)
RawVals == {0, 1, 3}

RawMaps(n) == [1..n -> {RInt(v) : v \in RawVals}]

SeqVals(s) == {s[k] : k \in 1..Len(s)}

\* (depth_map * 255).astype(np.uint8) on a uint8 array wraps modulo 256;
\* on a float array it truncates
ToUint8(dm) == [k \in 1..Len(dm) |-> RInt(((dm[k][1] * 255) \div dm[k][2]) % 256)]

\* cv2.bilateralFilter: every output pixel is a weighted mean of input
\* pixels; the model lets it take any value present in the input
BilateralOutcomes(m8) == [1..Len(m8) -> SeqVals(m8)]

\* cv2.inpaint: a masked pixel is rebuilt from the unmasked pixels; with
\* everything masked nothing is known and the zeros stay
InpaintOutcomes(m8) ==
    LET known == SeqVals(m8) \ {RInt(0)}
    IN  IF known = {} THEN {m8}
        ELSE {f \in [1..Len(m8) -> SeqVals(m8)] :
                \A k \in 1..Len(m8) :
                    IF m8[k] = RInt(0) THEN f[k] \in known ELSE f[k] = m8[k]}

Over255(m8) == [k \in 1..Len(m8) |-> Rat(m8[k][1], 255)]

\* DepthEstimator._enhance_depth_map
EnhanceOutcomes(dm) ==
    UNION {{Over255(p) : p \in InpaintOutcomes(s)} : s \in BilateralOutcomes(ToUint8(dm))}

\* 255 - gradient magnitude after the Gaussian blur.  Sobel of a constant
\* image is zero everywhere, so the map is the constant 255; otherwise the
\* gradients (and a 3x3 Sobel with reflected borders on a thin image may
\* still be all zero) give any map of values <= 255.
BlurredVals == {RInt(255), RInt(55)}

BlurredOutcomes(img) ==
    IF IsConstantImage(img) THEN {[k \in 1..NumPixels(img) |-> RInt(255)]}
    ELSE [1..NumPixels(img) -> BlurredVals]

(***************************************************************************)
(* DepthEstimator.estimate_depth                                           *)
(***************************************************************************)
InitDepth ==
    /\ image \in Images \cup {NoImage}
    /\ depth_model \in {"loaded", "None"}
    /\ enhanced \in BOOLEAN
    /\ depth_map = <<>>
    /\ normalized = <<>>
    /\ steps = <<>>
    /\ d_pc = "start"
    /\ IdleScene
    /\ IdleGrid
    /\ IdleExtra

\* Image.open(image_path).convert('RGB') and the test of self.depth_model
EdOpen ==
    /\ d_pc = "start"
    /\ d_pc' = IF image = NoImage THEN "handler"
               ELSE IF depth_model = "None" THEN "fallback"
               ELSE "model"
    /\ UNCHANGED <<image, depth_map, depth_model, enhanced, normalized, steps, sceneVars, gridVars, extraVars>>

\* a variant that enhances whatever the enhanced argument says
EdModelAlwaysEnhance ==
    /\ d_pc = "model"
    /\ \/ /\ \E raw \in RawMaps(NumPixels(image)) : depth_map' = raw
          /\ steps' = Append(steps, "model")
          /\ d_pc' = "enhance"
       \/ /\ d_pc' = "handler"
          /\ UNCHANGED <<depth_map, steps>>
    /\ UNCHANGED <<image, depth_model, enhanced, normalized, sceneVars, gridVars, extraVars>>

\* depth_result = self.depth_model(image): a map, or an exception
EdModel ==
    /\ d_pc = "model"
    /\ \/ /\ \E raw \in RawMaps(NumPixels(image)) : depth_map' = raw
          /\ steps' = Append(steps, "model")
          /\ d_pc' = IF enhanced THEN "enhance" ELSE "normalize"
       \/ /\ d_pc' = "handler"
          /\ UNCHANGED <<depth_map, steps>>
    /\ UNCHANGED <<image, depth_model, enhanced, normalized, sceneVars, gridVars, extraVars>>

\* _enhance_depth_map: the enhanced map, or an exception of cv2 (it reads
\* the file again with cv2.imread, which decodes fewer formats than PIL)
EdEnhance ==
    /\ d_pc = "enhance"
    /\ \/ /\ \E e \in EnhanceOutcomes(depth_map) : depth_map' = e
          /\ steps' = Append(steps, "enhance")
          /\ d_pc' = "normalize"
       \/ /\ d_pc' = "handler"
          /\ UNCHANGED <<depth_map, steps>>
    /\ UNCHANGED <<image, depth_model, enhanced, normalized, sceneVars, gridVars, extraVars>>

EdNormalize ==
    /\ d_pc = "normalize"
    /\ normalized' = _normalize_depth(depth_map)
    /\ steps' = Append(steps, "normalize")
    /\ d_pc' = "done"
    /\ UNCHANGED <<image, depth_map, depth_model, enhanced, sceneVars, gridVars, extraVars>>

\* _simple_depth_estimation, reached by the early return or from the
\* except clause.  With an undecodable image cv2.Sobel raises, and the
\* exception leaves estimate_depth (the call sits in the handler).
_simple_depth_estimation ==
    /\ d_pc \in {"fallback", "handler"}
    /\ IF image = NoImage
       THEN /\ d_pc' = "raised"
            /\ UNCHANGED <<depth_map, normalized, steps>>
       ELSE /\ \E b \in BlurredOutcomes(image) :
                 /\ depth_map' = b
                 /\ normalized' = NormalizeNoGuard(b)
            /\ steps' = steps \o <<"gradient", "normalize">>
            /\ d_pc' = "done"
    /\ UNCHANGED <<image, depth_model, enhanced, sceneVars, gridVars, extraVars>>

NextDepth == EdOpen \/ EdModel \/ EdEnhance \/ EdNormalize \/ _simple_depth_estimation

SpecDepth == InitDepth /\ [][NextDepth]_vars

(***************************************************************************)
(* Python dict helpers.                                                    *)
(***************************************************************************)
Get(d, key, default) == IF key \in DOMAIN d THEN d[key] ELSE default

Put(d, key, v) == [k \in DOMAIN d \cup {key} |-> IF k = key THEN v ELSE d[k]]

(***************************************************************************)
(* Pinhole projection.  Pixel k (1-based, row-major) of a grid of width w  *)
(* has column u and row v, as np.meshgrid(np.arange(w), np.arange(h))      *)
(* followed by reshape(-1) lays them out.                                  *)
(***************************************************************************)
PixelU(k, w) == (k - 1) % w

PixelV(k, w) == (k - 1) \div w

Column(pts, c) == [k \in 1..Len(pts) |-> pts[k][c]]

\* valid_mask of SceneGenerator._create_point_cloud
SceneValidInclusive(z) == RLe(Rat(1, 10), z) /\ RLe(z, RInt(20))

SceneValid(z) == RLt(Rat(1, 10), z) /\ RLt(z, RInt(20))

\* a variant that keeps the point at z = 0
DepthValidInclusive(z) == RLe(RInt(0), z) /\ RLt(z, RInt(100))

\* valid_mask of DepthEstimator.create_point_cloud
DepthValid(z) == RLt(RInt(0), z) /\ RLt(z, RInt(100))

Project(k, w, z, fx, fy, cx, cy) ==
    <<RDiv(RMul(RSub(RInt(PixelU(k, w)), cx), z), fx),
      RDiv(RMul(RSub(RInt(PixelV(k, w)), cy), z), fy),
      z>>

\* SceneGenerator._create_point_cloud
_create_point_cloud(img, dm, analysis) ==
    LET h == img.h
        w == img.w
        camera_info == Get(analysis, "camera", EmptyDict)
        fx == Get(camera_info, "estimated_focal_length", Rat(7 * w, 10))
        fy == fx
        cx == Rat(w, 2)
        cy == Rat(h, 2)
        points_3d == [k \in 1..Len(dm) |->
                        Project(k, w, RMul(dm[k], RInt(5)), fx, fy, cx, cy)]
        cols == [k \in 1..Len(img.pix) |->
                    [c \in 1..3 |-> Rat(img.pix[k][c], 255)]]
        valid_mask == [k \in 1..Len(dm) |-> SceneValid(points_3d[k][3])]
    IN  [points |-> Masked(points_3d, valid_mask),
         colors |-> Masked(cols, valid_mask)]

\* DepthEstimator.create_point_cloud
create_point_cloud(img, dm, params) ==
    LET h == img.h
        w == img.w
        fx == Get(params, "fx", Rat(7 * w, 10))
        fy == Get(params, "fy", Rat(7 * w, 10))
        cx == Get(params, "cx", Rat(w, 2))
        cy == Get(params, "cy", Rat(h, 2))
        points_3d == [k \in 1..Len(dm) |->
                        Project(k, w, RMul(dm[k], RInt(10)), fx, fy, cx, cy)]
        valid_mask == [k \in 1..Len(dm) |-> DepthValid(points_3d[k][3])]
    IN  [points |-> Masked(points_3d, valid_mask),
         colors |-> Masked(img.pix, valid_mask)]

(***************************************************************************)
(* Meshes.  Face indices are 0-based, as in the Python lists: index i is   *)
(* vertices[i + 1] of the TLA+ sequence.                                   *)
(***************************************************************************)
\* [points.min(axis=0), points.max(axis=0)] of a non-empty array
Bounds(pts) ==
    <<[c \in 1..3 |-> SeqMin(Column(pts, c))],
      [c \in 1..3 |-> SeqMax(Column(pts, c))]>>

\* points.mean(axis=0)
Mean(pts) == [c \in 1..3 |-> RDiv(SeqSum(Column(pts, c)), RInt(Len(pts)))]

\* (colors * 255).astype(int)
ColorsToInt(cols) ==
    [k \in 1..Len(cols) |-> [c \in 1..3 |-> (cols[k][c][1] * 255) \div cols[k][c][2]]]

\* a triangulation of n >= 3 points in convex position
Fan(n) == [k \in 1..(n - 2) |-> <<0, k, k + 1>>]

\* int(np.sqrt(n_points))
GridSize(n) == CHOOSE g \in 0..n : g * g <= n /\ (g + 1) * (g + 1) > n

GridCellOneTriangle(g, i, j) ==
    <<<<i * g + j, i * g + j + 1, (i + 1) * g + j>>>>

\* the two triangles of grid cell (i, j)
GridCell(g, i, j) ==
    <<<<i * g + j, i * g + j + 1, (i + 1) * g + j>>,
      <<i * g + j + 1, (i + 1) * g + j + 1, (i + 1) * g + j>>>>

\* for j in range(grid_size - 1)
RECURSIVE GridRow(_, _, _, _, _)
GridRow(n, g, i, j, acc) ==
    IF j >= g - 1 THEN acc
    ELSE GridRow(n, g, i, j + 1,
                 IF i * g + j + g + 1 < n THEN acc \o GridCell(g, i, j) ELSE acc)

\* for i in range(grid_size - 1)
RECURSIVE GridRows(_, _, _, _)
GridRows(n, g, i, acc) ==
    IF i >= g - 1 THEN acc
    ELSE GridRows(n, g, i + 1, GridRow(n, g, i, 0, acc))

\* the grid-based faces of _create_simple_mesh (the bare except branch)
GridFaces(n) == GridRows(n, GridSize(n), 0, <<>>)

\* scipy.spatial.Delaunay(points_2d).simplices when it succeeds; it raises
\* for fewer than 3 points and for degenerate (e.g. collinear) input
DelaunayOutcomes(n) == IF n >= 3 THEN {Fan(n)} ELSE {}

SubsampleSize == 10000

\* np.random.choice(len(points), 10000, replace=False) when the cloud is
\* larger than 10000 points; otherwise every point is kept in order
SubsampleChoices(n) ==
    IF n > SubsampleSize
    THEN {f \in [1..SubsampleSize -> 1..n] :
            \A a, b \in 1..SubsampleSize : a # b => f[a] # f[b]}
    ELSE {[k \in 1..n |-> k]}

\* the dict returned by _create_simple_mesh; points.min(axis=0) raises
\* ValueError on an empty array
SimpleMeshRaises(pts) == Len(pts) = 0

SimpleMesh(pts, cols, faces) ==
    [vertices |-> pts,
     faces |-> faces,
     vertex_colors |-> ColorsToInt(cols),
     vertex_count |-> Len(pts),
     face_count |-> Len(faces),
     bounds |-> Bounds(pts),
     center |-> Mean(pts)]

DecimationThreshold == 50000

DecimationTarget == 25000

\* the primary path of _generate_mesh when Open3D and trimesh succeed: a
\* surface over the cloud, decimated when it has more than 50000 faces.
\* Open3D refuses a cloud without normals (an empty one), and trimesh has
\* no bounds for a mesh without faces, so at least 3 points are needed.
PoissonOutcomes(pts, cols) ==
    IF Len(pts) < 3 THEN {}
    ELSE LET faces == Fan(Len(pts))
             kept == IF Len(faces) > DecimationThreshold
                     THEN SubSeq(faces, 1, DecimationTarget) ELSE faces
         IN  {SimpleMesh(pts, cols, kept)}

ExtendBackgroundNoOffset(md) ==
    LET vertices == md.vertices
        bounds == md.bounds
        center == md.center
        ground_y == RSub(bounds[1][2], RInt(1))
        ground_size == RMul(RMax2(RSub(bounds[2][1], bounds[1][1]),
                                  RSub(bounds[2][3], bounds[1][3])), RInt(2))
        half == RDiv(ground_size, RInt(2))
        ground_vertices ==
            <<<<RSub(center[1], half), ground_y, RSub(center[3], half)>>,
              <<RAdd(center[1], half), ground_y, RSub(center[3], half)>>,
              <<RAdd(center[1], half), ground_y, RAdd(center[3], half)>>,
              <<RSub(center[1], half), ground_y, RAdd(center[3], half)>>>>
        ground_faces == <<<<0, 1, 2>>, <<0, 2, 3>>>>
        ground_colors == [k \in 1..4 |-> <<128, 128, 128>>]
    IN  [md EXCEPT !.vertices = @ \o ground_vertices,
                   !.faces = @ \o ground_faces,
                   !.vertex_colors = @ \o ground_colors,
                   !.vertex_count = @ + 4,
                   !.face_count = @ + 2]

\* SceneGenerator._extend_background
_extend_background(md) ==
    LET vertices == md.vertices
        bounds == md.bounds
        center == md.center
        ground_y == RSub(bounds[1][2], RInt(1))
        ground_size == RMul(RMax2(RSub(bounds[2][1], bounds[1][1]),
                                  RSub(bounds[2][3], bounds[1][3])), RInt(2))
        half == RDiv(ground_size, RInt(2))
        ground_vertices ==
            <<<<RSub(center[1], half), ground_y, RSub(center[3], half)>>,
              <<RAdd(center[1], half), ground_y, RSub(center[3], half)>>,
              <<RAdd(center[1], half), ground_y, RAdd(center[3], half)>>,
              <<RSub(center[1], half), ground_y, RAdd(center[3], half)>>>>
        ground_faces ==
            <<<<Len(vertices), Len(vertices) + 1, Len(vertices) + 2>>,
              <<Len(vertices), Len(vertices) + 2, Len(vertices) + 3>>>>
        ground_colors == [k \in 1..4 |-> <<128, 128, 128>>]
    IN  [md EXCEPT !.vertices = @ \o ground_vertices,
                   !.faces = @ \o [k \in 1..2 |->
                                     [c \in 1..3 |-> ground_faces[k][c] + Len(vertices)]],
                   !.vertex_colors = @ \o ground_colors,
                   !.vertex_count = @ + 4,
                   !.face_count = @ + 2]

\* a variant that skips the division by the length
ExtractLightingNotNormalized(analysis) ==
    LET lighting_data == Get(analysis, "lighting", EmptyDict)
        light_direction == Get(lighting_data, "estimated_light_direction",
                               [x |-> RInt(0), y |-> RInt(-1)])
    IN  [direction |-> [vec |-> <<light_direction.x, RInt(-1), light_direction.y>>,
                        over_sqrt |-> RInt(1)],
         intensity |-> RMin2(RInt(1),
                             RDiv(Get(lighting_data, "mean_luminance", RInt(128)), RInt(255))),
         ambient |-> Rat(3, 10),
         shadow_strength |-> Get(lighting_data, "shadow_ratio", Rat(1, 5))]

(***************************************************************************)
(* Lighting and scores.  The unit direction has an irrational length in    *)
(* general, so it is kept as the vector vec divided by sqrt(over_sqrt).    *)
(***************************************************************************)
_extract_lighting_info(analysis) ==
    LET lighting_data == Get(analysis, "lighting", EmptyDict)
        light_direction == Get(lighting_data, "estimated_light_direction",
                               [x |-> RInt(0), y |-> RInt(-1)])
        light_dir_3d == <<light_direction.x, RInt(-1), light_direction.y>>
        length2 == SeqSum([c \in 1..3 |-> RMul(light_dir_3d[c], light_dir_3d[c])])
    IN  [direction |-> [vec |-> light_dir_3d,
                        over_sqrt |-> IF RLt(RInt(0), length2) THEN length2 ELSE RInt(1)],
         intensity |-> RMin2(RInt(1),
                             RDiv(Get(lighting_data, "mean_luminance", RInt(128)), RInt(255))),
         ambient |-> Rat(3, 10),
         shadow_strength |-> Get(lighting_data, "shadow_ratio", Rat(1, 5))]

_calculate_complexity(md) ==
    LET vertex_count == Get(md, "vertex_count", 0)
        face_count == Get(md, "face_count", 0)
        vertex_complexity == RMin2(RInt(1), Rat(vertex_count, 50000))
        face_complexity == RMin2(RInt(1), Rat(face_count, 100000))
    IN  RDiv(RAdd(vertex_complexity, face_complexity), RInt(2))

\* a variant that never reads complexity_score
SceneQualityDefaultComplexity(md, analysis) ==
    LET image_quality == Get(analysis, "quality_score", Rat(4, 5))
        quality == RAdd(RMul(image_quality, Rat(3, 5)), RMul(Rat(1, 2), Rat(2, 5)))
    IN  RMin2(RInt(1), quality)

_calculate_scene_quality(md, analysis) ==
    LET image_quality == Get(analysis, "quality_score", Rat(4, 5))
        mesh_complexity == Get(md, "complexity_score", Rat(1, 2))
        quality == RAdd(RMul(image_quality, Rat(3, 5)), RMul(mesh_complexity, Rat(2, 5)))
    IN  RMin2(RInt(1), quality)

(***************************************************************************)
(* SceneGenerator.generate_3d_scene                                        *)
(***************************************************************************)
\* the analysis of ImageProcessor.analyze_image for an image of width w:
\* the full dict, or the partial dict of its except clause
LightingVals ==
    {[mean_luminance |-> RInt(102),
      shadow_ratio |-> Rat(1, 4),
      estimated_light_direction |-> [x |-> RInt(2), y |-> RInt(2)]]}

QualityVals == {Rat(1, 5), RInt(1)}

ErrorAnalysis == [error |-> "analysis failed", quality_score |-> Rat(1, 2)]

Analyses(w) ==
    {ErrorAnalysis} \cup
    {[quality_score |-> q,
      lighting |-> l,
      camera |-> [estimated_focal_length |-> Rat(25 * w, 18)]] :
        q \in QualityVals, l \in LightingVals}

\* depth maps as estimate_depth returns them: values in [0,1], or the
\* all-nan map of the gradient fallback
SceneDepthVals == {RInt(0), Rat(1, 2), RInt(1)}

SceneDepthMaps(n) == [1..n -> SceneDepthVals] \cup {[k \in 1..n |-> NaN]}

\* the dict of the except clause of generate_3d_scene
ErrorResult(msg) == [error |-> msg, quality_score |-> Rat(1, 2)]

Init ==
    /\ image \in Images \cup {NoImage}
    /\ depth_map \in SceneDepthMaps(IF image = NoImage THEN 1 ELSE NumPixels(image))
    /\ image_analysis \in Analyses(IF image = NoImage THEN 1 ELSE image.w)
    /\ extend_background \in BOOLEAN
    /\ camera_params = EmptyDict
    /\ points = <<>>
    /\ colors = <<>>
    /\ mesh_data = EmptyDict
    /\ mesh_path = "none"
    /\ result = EmptyDict
    /\ s_pc = "start"
    /\ IdleDepth
    /\ IdleGrid
    /\ IdleExtra

\* cv2.imread and cv2.cvtColor: cvtColor raises on the None that imread
\* returns for an undecodable file
GsLoad ==
    /\ s_pc = "start"
    /\ IF image = NoImage
       THEN /\ result' = ErrorResult("cvtColor: empty image")
            /\ s_pc' = "done"
       ELSE /\ s_pc' = "cloud"
            /\ UNCHANGED result
    /\ UNCHANGED <<image, depth_map, depthVars, gridVars, extraVars, image_analysis,
                   camera_params, extend_background, points, colors,
                   mesh_data, mesh_path>>

GsPointCloud ==
    /\ s_pc = "cloud"
    /\ LET pc == _create_point_cloud(image, depth_map, image_analysis)
       IN  /\ points' = pc.points
           /\ colors' = pc.colors
    /\ s_pc' = "mesh"
    /\ UNCHANGED <<image, depth_map, depthVars, gridVars, extraVars, image_analysis,
                   camera_params, extend_background, mesh_data, mesh_path,
                   result>>

\* the try block of _generate_mesh: a mesh, or an exception that hands the
\* cloud to _create_simple_mesh
GsPoisson ==
    /\ s_pc = "mesh"
    /\ \/ /\ \E m \in PoissonOutcomes(points, colors) : mesh_data' = m
          /\ mesh_path' = "poisson"
          /\ s_pc' = "extend"
       \/ /\ mesh_path' = "fallback"
          /\ s_pc' = "simple"
          /\ UNCHANGED mesh_data
    /\ UNCHANGED <<image, depth_map, depthVars, gridVars, extraVars, image_analysis,
                   camera_params, extend_background, points, colors, result>>

\* _create_simple_mesh, called from the except clause of _generate_mesh:
\* what it raises reaches the except clause of generate_3d_scene
_create_simple_mesh ==
    /\ s_pc = "simple"
    /\ \E sub \in SubsampleChoices(Len(points)) :
         LET pts == [k \in 1..Len(sub) |-> points[sub[k]]]
             cols == [k \in 1..Len(sub) |-> colors[sub[k]]]
         IN  IF SimpleMeshRaises(pts)
             THEN /\ result' = ErrorResult("zero-size array to reduction operation minimum")
                  /\ s_pc' = "done"
                  /\ UNCHANGED <<points, colors, mesh_data>>
             ELSE /\ \E faces \in DelaunayOutcomes(Len(pts)) \cup {GridFaces(Len(pts))} :
                       mesh_data' = SimpleMesh(pts, cols, faces)
                  /\ points' = pts
                  /\ colors' = cols
                  /\ s_pc' = "extend"
                  /\ UNCHANGED result
    /\ UNCHANGED <<image, depth_map, depthVars, gridVars, extraVars, image_analysis,
                   camera_params, extend_background, mesh_path>>

GsExtend ==
    /\ s_pc = "extend"
    /\ mesh_data' = IF extend_background THEN _extend_background(mesh_data)
                    ELSE mesh_data
    /\ s_pc' = "lighting"
    /\ UNCHANGED <<image, depth_map, depthVars, gridVars, extraVars, image_analysis,
                   camera_params, extend_background, points, colors,
                   mesh_path, result>>

GsLighting ==
    /\ s_pc = "lighting"
    /\ mesh_data' = Put(mesh_data, "lighting", _extract_lighting_info(image_analysis))
    /\ s_pc' = "complexity"
    /\ UNCHANGED <<image, depth_map, depthVars, gridVars, extraVars, image_analysis,
                   camera_params, extend_background, points, colors,
                   mesh_path, result>>

GsComplexity ==
    /\ s_pc = "complexity"
    /\ mesh_data' = Put(mesh_data, "complexity_score", _calculate_complexity(mesh_data))
    /\ s_pc' = "quality"
    /\ UNCHANGED <<image, depth_map, depthVars, gridVars, extraVars, image_analysis,
                   camera_params, extend_background, points, colors,
                   mesh_path, result>>

\* the quality score and the return of mesh_data
GsQuality ==
    /\ s_pc = "quality"
    /\ mesh_data' = Put(mesh_data, "quality_score",
                        _calculate_scene_quality(mesh_data, image_analysis))
    /\ result' = mesh_data'
    /\ s_pc' = "done"
    /\ UNCHANGED <<image, depth_map, depthVars, gridVars, extraVars, image_analysis,
                   camera_params, extend_background, points, colors,
                   mesh_path>>

Next ==
    \/ GsLoad
    \/ GsPointCloud
    \/ GsPoisson
    \/ _create_simple_mesh
    \/ GsExtend
    \/ GsLighting
    \/ GsComplexity
    \/ GsQuality

Spec == Init /\ [][Next]_vars

(***************************************************************************)
(* The two projections on caller-supplied depth maps.                      *)
(***************************************************************************)
ProjDepthVals == {RInt(0), Rat(1, 50), RInt(1), RInt(4), RInt(10), NaN}

CameraParams ==
    {EmptyDict, [fx |-> RInt(1), fy |-> RInt(2), cx |-> RInt(0), cy |-> RInt(1)]}

ProjAnalyses(w) ==
    {ErrorAnalysis,
     [quality_score |-> RInt(1),
      camera |-> [estimated_focal_length |-> Rat(25 * w, 18)]]}

InitProject ==
    /\ image \in Images
    /\ depth_map \in [1..NumPixels(image) -> ProjDepthVals]
    /\ image_analysis \in ProjAnalyses(image.w)
    /\ camera_params \in CameraParams
    /\ extend_background = FALSE
    /\ points = <<>>
    /\ colors = <<>>
    /\ mesh_data = EmptyDict
    /\ mesh_path = "none"
    /\ result = EmptyDict
    /\ s_pc = "project"
    /\ IdleDepth
    /\ IdleGrid
    /\ IdleExtra

PcScene ==
    /\ s_pc = "project"
    /\ LET pc == _create_point_cloud(image, depth_map, image_analysis)
       IN  /\ points' = pc.points
           /\ colors' = pc.colors
    /\ s_pc' = "scene_cloud"
    /\ UNCHANGED <<image, depth_map, depthVars, gridVars, extraVars, image_analysis,
                   camera_params, extend_background, mesh_data, mesh_path,
                   result>>

PcDepth ==
    /\ s_pc = "project"
    /\ LET pc == create_point_cloud(image, depth_map, camera_params)
       IN  /\ points' = pc.points
           /\ colors' = pc.colors
    /\ s_pc' = "depth_cloud"
    /\ UNCHANGED <<image, depth_map, depthVars, gridVars, extraVars, image_analysis,
                   camera_params, extend_background, mesh_data, mesh_path,
                   result>>

NextProject == PcScene \/ PcDepth

SpecProject == InitProject /\ [][NextProject]_vars

(***************************************************************************)
(* The grid triangulation of _create_simple_mesh for every point count.    *)
(***************************************************************************)
MaxGridPoints == 64

InitGrid ==
    /\ n_points \in 0..MaxGridPoints
    /\ grid_faces = <<>>
    /\ g_pc = "start"
    /\ image = NoImage
    /\ depth_map = <<>>
    /\ IdleDepth
    /\ IdleScene
    /\ IdleExtra

GridFallback ==
    /\ g_pc = "start"
    /\ grid_faces' = GridFaces(n_points)
    /\ g_pc' = "done"
    /\ UNCHANGED <<image, depth_map, depthVars, sceneVars, n_points, extraVars>>

NextGrid == GridFallback

SpecGrid == InitGrid /\ [][NextGrid]_vars

(***************************************************************************)
(* The two scores on arbitrary counts and image quality scores.            *)
(***************************************************************************)
CountVals == {0, 1, 25000, 50000, 50001, 100000, 100001, 400000}

ScoreQualityVals == {RInt(-1), RInt(0), Rat(1, 2), Rat(4, 5), RInt(1), RInt(2)}

InitScore ==
    /\ mesh_data \in {[vertex_count |-> v, face_count |-> f] :
                        v \in CountVals, f \in CountVals}
    /\ image_analysis \in {EmptyDict} \cup
                          {[quality_score |-> q] : q \in ScoreQualityVals}
    /\ s_pc = "complexity"
    /\ camera_params = EmptyDict
    /\ extend_background = FALSE
    /\ points = <<>>
    /\ colors = <<>>
    /\ mesh_path = "none"
    /\ result = EmptyDict
    /\ image = NoImage
    /\ depth_map = <<>>
    /\ IdleDepth
    /\ IdleGrid
    /\ IdleExtra

NextScore == GsComplexity \/ GsQuality

SpecScore == InitScore /\ [][NextScore]_vars

\* generate_3d_scene on its reconstructed meshes and on meshes of arbitrary
\* size (the last two stages only)
InitSceneScore == Init \/ InitScore

SpecSceneScore == InitSceneScore /\ [][Next]_vars

(***************************************************************************)
(* ARExporter.export_ar_scene                                              *)
(***************************************************************************)
\* str.endswith
EndsWith(path, suffix) ==
    /\ Len(path) >= Len(suffix)
    /\ SubSeq(path, Len(path) - Len(suffix) + 1, Len(path)) = suffix

\* path.rsplit('.', 1)[0]: the text before the last '.', or the whole text
\* when it holds no '.'
RSplitDot(path) ==
    LET dots == {i \in 1..Len(path) : path[i] = "."}
    IN  IF dots = {} THEN path
        ELSE SubSeq(path, 1, (CHOOSE i \in dots : \A j \in dots : j <= i) - 1)

GlbExt == <<".", "g", "l", "b">>

GltfExt == <<".", "g", "l", "t", "f">>

ObjExt == <<".", "o", "b", "j">>

JsonExt == <<".", "j", "s", "o", "n">>

\* the branch export_ar_scene takes for a path
FileType(path) ==
    IF EndsWith(path, GlbExt) THEN "glb"
    ELSE IF EndsWith(path, GltfExt) THEN "gltf"
    ELSE IF EndsWith(path, ObjExt) THEN "obj"
    ELSE "other"

\* the path mesh.export is called with
ExportTarget(path) ==
    IF FileType(path) = "other" THEN RSplitDot(path) \o GlbExt ELSE path

\* _create_trimesh_from_scene raises KeyError without these keys
TrimeshKeyError(sd) == ~({"vertices", "faces"} \subseteq DOMAIN sd)

\* vertex_colors / 255.0 when some channel exceeds 1, and the alpha column
RGBA(cols) ==
    LET scale == \E k \in 1..Len(cols) : \E c \in 1..3 : cols[k][c] > 1
    IN  [k \in 1..Len(cols) |->
            [c \in 1..4 |-> IF c = 4 THEN RInt(1)
                            ELSE IF scale THEN Rat(cols[k][c], 255)
                            ELSE RInt(cols[k][c])]]

\* the trimesh object built from the scene
_create_trimesh_from_scene(sd) ==
    [vertices |-> sd.vertices,
     faces |-> sd.faces,
     vertex_colors |-> IF "vertex_colors" \in DOMAIN sd /\ sd.vertex_colors # <<>>
                       THEN RGBA(sd.vertex_colors) ELSE <<>>,
     metadata |-> IF "lighting" \in DOMAIN sd
                  THEN [lighting |-> sd.lighting] ELSE EmptyDict]

(***************************************************************************)
(* json.dump and json.load.  A JSON array is written as a stream of        *)
(* tokens: brackets, commas and numbers; an int and a float are different  *)
(* tokens, nan is written as the token NaN.  Objects keep their keys.      *)
(***************************************************************************)
OpenTok == [tok |-> "["]

CloseTok == [tok |-> "]"]

CommaTok == [tok |-> ","]

RECURSIVE Flatten(_)
Flatten(ss) == IF ss = <<>> THEN <<>> ELSE ss[1] \o Flatten(Tail(ss))

\* items: a sequence of token streams
JsonList(items) ==
    <<OpenTok>>
    \o Flatten([k \in 1..Len(items) |->
                   IF k = 1 THEN items[k] ELSE <<CommaTok>> \o items[k]])
    \o <<CloseTok>>

\* a variant that writes two decimals
JsonFloatTwoDecimals(r) ==
    <<IF IsNaN(r) THEN [tok |-> "NaN"]
      ELSE [tok |-> "float", val |-> Rat((r[1] * 100) \div r[2], 100)]>>

\* float.__repr__: the shortest text that parses back to the same float
JsonFloat(r) == <<IF IsNaN(r) THEN [tok |-> "NaN"] ELSE [tok |-> "float", val |-> r]>>

JsonInt(i) == <<[tok |-> "int", val |-> i]>>

JsonFloatList(row) == JsonList([c \in 1..Len(row) |-> JsonFloat(row[c])])

JsonIntList(row) == JsonList([c \in 1..Len(row) |-> JsonInt(row[c])])

JsonFloatRows(rows) == JsonList([k \in 1..Len(rows) |-> JsonFloatList(rows[k])])

JsonIntRows(rows) == JsonList([k \in 1..Len(rows) |-> JsonIntList(rows[k])])

\* the value of a number token; a parsed NaN is a nan
TokenValue(t) == IF t.tok = "NaN" THEN NaN ELSE t.val

\* json.load on a stream: [val, next] for the value that starts at ts[i]
RECURSIVE JsonParseValue(_, _)
RECURSIVE JsonParseItems(_, _, _)
JsonParseValue(ts, i) ==
    IF ts[i].tok = "[" THEN JsonParseItems(ts, i + 1, <<>>)
    ELSE [val |-> TokenValue(ts[i]), next |-> i + 1]

JsonParseItems(ts, i, acc) ==
    IF ts[i].tok = "]" THEN [val |-> acc, next |-> i + 1]
    ELSE LET item == JsonParseValue(ts, i)
             j == IF ts[item.next].tok = "," THEN item.next + 1 ELSE item.next
         IN  JsonParseItems(ts, j, Append(acc, item.val))

JsonParse(ts) == JsonParseValue(ts, 1).val

\* json.dump(export_data) for the export_data of _export_simple_format
JsonDumpLighting(l) ==
    [k \in DOMAIN l |-> IF k = "direction" THEN JsonFloatList(l[k]) ELSE JsonFloat(l[k])]

JsonDump(sd) ==
    [format |-> "ar_memory_scene",
     version |-> "1.0",
     geometry |->
        [vertices |-> JsonFloatRows(sd.vertices),
         faces |-> JsonIntRows(sd.faces),
         vertex_colors |-> JsonIntRows(Get(sd, "vertex_colors", <<>>))],
     lighting |-> JsonDumpLighting(Get(sd, "lighting", EmptyDict)),
     metadata |->
        [vertex_count |-> JsonInt(Get(sd, "vertex_count", 0)),
         face_count |-> JsonInt(Get(sd, "face_count", 0)),
         bounds |-> JsonFloatRows(Get(sd, "bounds", <<>>)),
         center |-> IF "center" \in DOMAIN sd THEN JsonFloatList(sd.center)
                    ELSE JsonIntList(<<0, 0, 0>>)]]

\* json.load of a document written by JsonDump
JsonLoad(doc) ==
    [format |-> doc.format,
     version |-> doc.version,
     geometry |-> [k \in DOMAIN doc.geometry |-> JsonParse(doc.geometry[k])],
     lighting |-> [k \in DOMAIN doc.lighting |-> JsonParse(doc.lighting[k])],
     metadata |-> [k \in DOMAIN doc.metadata |-> JsonParse(doc.metadata[k])]]

\* scenes handed to the exporter: what generate_3d_scene returns (a scored
\* mesh with or without the ground plane, a single point, or the dict of
\* its except clause) and hand-built records with only some of the keys
SamplePoints ==
    <<<<RInt(0), RInt(0), RInt(1)>>,
      <<Rat(1, 3), RInt(0), RInt(1)>>,
      <<RInt(0), Rat(-1, 2), RInt(2)>>>>

SampleColors ==
    <<<<RInt(1), RInt(0), Rat(64, 255)>>,
      <<Rat(128, 255), Rat(128, 255), Rat(128, 255)>>,
      <<RInt(0), RInt(0), RInt(0)>>>>

\* a lighting dict as _extract_lighting_info stores it: the direction is
\* the list light_dir_3d.tolist(), here (2, -1, 2) / 3
SampleLighting ==
    [direction |-> <<Rat(2, 3), Rat(-1, 3), Rat(2, 3)>>,
     intensity |-> Rat(2, 5),
     ambient |-> Rat(3, 10),
     shadow_strength |-> Rat(1, 4)]

Scored(md) ==
    LET lit == Put(md, "lighting", SampleLighting)
        cplx == Put(lit, "complexity_score", _calculate_complexity(lit))
    IN  Put(cplx, "quality_score", _calculate_scene_quality(cplx, EmptyDict))

ExportScenes ==
    {Scored(SimpleMesh(SamplePoints, SampleColors, Fan(3))),
     Scored(_extend_background(SimpleMesh(SamplePoints, SampleColors, Fan(3)))),
     Scored(SimpleMesh(SubSeq(SamplePoints, 1, 1), SubSeq(SampleColors, 1, 1), <<>>)),
     [vertices |-> SamplePoints, faces |-> Fan(3)],
     [vertices |-> SamplePoints],
     ErrorResult("cvtColor: empty image")}

ExportPaths ==
    {<<"p", "/", "s">> \o GlbExt,
     <<"p", "/", "s">> \o GltfExt,
     <<"p", "/", "s">> \o ObjExt,
     <<"p", "/", "s", ".", "u", "s", "d", "z">>,
     <<"p", "/", "s", ".", "v", "2", ".", "p", "l", "y">>,
     <<"p", "/", "s">>,
     <<".", "/", "s">>,
     <<"p", ".", "d", "/", "s">>}

InitExport ==
    /\ scene_data \in ExportScenes
    /\ path_arg \in ExportPaths
    /\ output_path = path_arg
    /\ writable \in BOOLEAN
    /\ exported = EmptyDict
    /\ returned_path = <<>>
    /\ e_pc = "create"
    /\ opt_calls = <<>>
    /\ IdleAnalyze
    /\ image = NoImage
    /\ depth_map = <<>>
    /\ IdleDepth
    /\ IdleScene
    /\ IdleGrid
    /\ IdleLater

\* mesh = self._create_trimesh_from_scene(scene_data): KeyError without
\* vertices or faces; numpy and trimesh may reject what they are given
ExCreate ==
    /\ e_pc = "create"
    /\ \/ /\ ~TrimeshKeyError(scene_data)
          /\ e_pc' = "export"
       \/ e_pc' = "fallback"
    /\ UNCHANGED <<image, depth_map, depthVars, sceneVars, gridVars, laterVars, opt_calls,
                   analyzeVars, scene_data, path_arg, output_path, writable,
                   exported, returned_path>>

\* the if / elif chain and mesh.export, which may raise
ExExport ==
    /\ e_pc = "export"
    /\ output_path' = ExportTarget(output_path)
    /\ \/ /\ writable
          /\ exported' = [path |-> output_path',
                          file_type |-> IF FileType(output_path) = "other" THEN "glb"
                                        ELSE FileType(output_path),
                          content |-> _create_trimesh_from_scene(scene_data)]
          /\ returned_path' = output_path'
          /\ e_pc' = "done"
       \/ /\ e_pc' = "fallback"
          /\ UNCHANGED <<exported, returned_path>>
    /\ UNCHANGED <<image, depth_map, depthVars, sceneVars, gridVars, laterVars, opt_calls,
                   analyzeVars, scene_data, path_arg, writable>>

\* called from the except clause, so whatever it raises leaves
\* export_ar_scene: KeyError on scene_data['vertices'] / ['faces'], or
\* OSError from open()
_export_simple_format ==
    /\ e_pc = "fallback"
    /\ IF TrimeshKeyError(scene_data) \/ ~writable
       THEN /\ e_pc' = "raised"
            /\ UNCHANGED <<exported, returned_path>>
       ELSE LET json_path == RSplitDot(output_path) \o JsonExt
            IN  /\ exported' = [path |-> json_path,
                                file_type |-> "json",
                                content |-> JsonDump(scene_data)]
                /\ returned_path' = json_path
                /\ e_pc' = "done"
    /\ UNCHANGED <<image, depth_map, depthVars, sceneVars, gridVars, laterVars, opt_calls,
                   analyzeVars, scene_data, path_arg, output_path, writable>>

NextExport == ExCreate \/ ExExport \/ _export_simple_format

SpecExport == InitExport /\ [][NextExport]_vars

(***************************************************************************)
(* SceneGenerator.optimize_lighting, called any number of times on the     *)
(* scene that generate_3d_scene returned.                                  *)
(***************************************************************************)
MaxOptimize == 3

\* a variant that also rescales shadow_strength
OptimizeLightingAlsoShadow(md, analysis) ==
    LET lighting == Get(md, "lighting", EmptyDict)
        quality_score == Get(analysis, "quality_score", Rat(4, 5))
    IN  Put(md, "lighting", [k \in DOMAIN lighting |->
                                IF k = "direction" THEN lighting[k]
                                ELSE RMul(lighting[k], quality_score)])

\* a variant without the lower clamp of ambient
OptimizeLightingNoFloor(md, analysis) ==
    LET lighting == Get(md, "lighting", EmptyDict)
        quality_score == Get(analysis, "quality_score", Rat(4, 5))
        intensity == RMin2(RInt(1),
                           RMul(Get(lighting, "intensity", Rat(4, 5)),
                                RAdd(Rat(1, 2), RMul(quality_score, Rat(1, 2)))))
        ambient == RMin2(Rat(1, 2), RMul(Get(lighting, "ambient", Rat(3, 10)), quality_score))
    IN  Put(md, "lighting", Put(Put(lighting, "intensity", intensity), "ambient", ambient))

\* a variant that leaves an intensity already within [0,1] alone
OptimizeLightingClampOnly(md, analysis) ==
    LET lighting == Get(md, "lighting", EmptyDict)
        quality_score == Get(analysis, "quality_score", Rat(4, 5))
        intensity == RMin2(RInt(1), Get(lighting, "intensity", Rat(4, 5)))
        ambient == RMax2(Rat(1, 10),
                         RMin2(Rat(1, 2),
                               RMul(Get(lighting, "ambient", Rat(3, 10)), quality_score)))
    IN  Put(md, "lighting", Put(Put(lighting, "intensity", intensity), "ambient", ambient))

optimize_lighting(md, analysis) ==
    LET lighting == Get(md, "lighting", EmptyDict)
        quality_score == Get(analysis, "quality_score", Rat(4, 5))
        intensity == RMin2(RInt(1),
                           RMul(Get(lighting, "intensity", Rat(4, 5)),
                                RAdd(Rat(1, 2), RMul(quality_score, Rat(1, 2)))))
        ambient == RMax2(Rat(1, 10),
                         RMin2(Rat(1, 2),
                               RMul(Get(lighting, "ambient", Rat(3, 10)), quality_score)))
    IN  Put(md, "lighting", Put(Put(lighting, "intensity", intensity), "ambient", ambient))

\* the lighting section _analyze_lighting produces (mean_luminance beyond
\* 255 exercises the clamp), some of its keys possibly absent
LuminanceVals == {RInt(0), RInt(102), RInt(255), RInt(300)}

DirectionVals ==
    {[x |-> RInt(0), y |-> RInt(0)],
     [x |-> RInt(2), y |-> RInt(2)],
     [x |-> RInt(-3), y |-> RInt(4)]}

LightingSections ==
    {[mean_luminance |-> m] : m \in LuminanceVals}
    \cup {[mean_luminance |-> m, shadow_ratio |-> Rat(1, 4)] : m \in LuminanceVals}
    \cup {[mean_luminance |-> m, estimated_light_direction |-> d] :
             m \in LuminanceVals, d \in DirectionVals}
    \cup {[mean_luminance |-> m, shadow_ratio |-> Rat(1, 4),
           estimated_light_direction |-> d] : m \in LuminanceVals, d \in DirectionVals}

\* analyses with and without a lighting section and a quality score
LightAnalyses ==
    {EmptyDict, ErrorAnalysis}
    \cup {[lighting |-> l] : l \in LightingSections}
    \cup {[lighting |-> l, quality_score |-> Rat(1, 2)] : l \in LightingSections}

\* quality scores of the analysis a later optimize_lighting call is given
OptQualityVals == {RInt(0), Rat(1, 2), RInt(1)}

\* the mesh is about to receive its lighting, or is a mesh dict that never
\* had one
InitLighting ==
    /\ mesh_data = SimpleMesh(SamplePoints, SampleColors, Fan(3))
    /\ image_analysis \in LightAnalyses
    /\ \/ s_pc = "lighting" /\ result = EmptyDict
       \/ s_pc = "done" /\ result = mesh_data
    /\ opt_calls = <<>>
    /\ camera_params = EmptyDict
    /\ extend_background = FALSE
    /\ points = <<>>
    /\ colors = <<>>
    /\ mesh_path = "none"
    /\ image = NoImage
    /\ depth_map = <<>>
    /\ IdleDepth
    /\ IdleGrid
    /\ IdleExport
    /\ IdleAnalyze
    /\ IdleLater

\* optimize_lighting(mesh_data, image_analysis) on the returned scene; the
\* dict is updated in place, so the caller's scene changes with it
OptimizeLighting ==
    /\ s_pc = "done"
    /\ Len(opt_calls) < MaxOptimize
    /\ \E a \in {image_analysis} \cup
                {Put(image_analysis, "quality_score", q) : q \in OptQualityVals} :
          /\ mesh_data' = optimize_lighting(mesh_data, a)
          /\ opt_calls' = Append(opt_calls, Get(a, "quality_score", Rat(4, 5)))
    /\ result' = mesh_data'
    /\ UNCHANGED <<image, depth_map, depthVars, gridVars, laterVars, exportVars, analyzeVars,
                   s_pc, image_analysis, camera_params, extend_background,
                   points, colors, mesh_path>>

NextLighting == GsLighting \/ GsComplexity \/ GsQuality \/ OptimizeLighting

SpecLighting == InitLighting /\ [][NextLighting]_vars

(***************************************************************************)
(* ImageProcessor.analyze_image                                            *)
(***************************************************************************)
\* dict.update
Update(d, e) == [k \in DOMAIN d \cup DOMAIN e |-> IF k \in DOMAIN e THEN e[k] ELSE d[k]]

\* Python's abs on a float
RAbs(r) == IF RLt(r, RInt(0)) THEN RNeg(r) ELSE r

\* a variant whose brightness term is signed
AnalyzeQualitySignedBrightness(m) ==
    LET quality_score ==
            RMin2(RInt(1),
                  RAdd(RAdd(RMul(RMin2(RDiv(m.sharpness, RInt(1000)), RInt(1)), Rat(3, 10)),
                            RMul(RMin2(RDiv(m.contrast, RInt(50)), RInt(1)), Rat(3, 10))),
                       RAdd(RMul(RSub(RInt(1), RMin2(RDiv(m.sharpness, RInt(20)), RInt(1))),
                                 Rat(1, 5)),
                            RMul(RSub(RInt(1),
                                      RDiv(RSub(m.brightness, RInt(128)), RInt(128))),
                                 Rat(1, 5)))))
    IN  [sharpness |-> m.sharpness,
         brightness |-> m.brightness,
         contrast |-> m.contrast,
         noise_level |-> m.sharpness,
         quality_score |-> quality_score]

\* _estimate_noise recomputes the Laplacian variance, so noise_level is the
\* sharpness
_analyze_quality(m) ==
    LET sharpness == m.sharpness
        brightness == m.brightness
        contrast == m.contrast
        noise_level == m.sharpness
        quality_score ==
            RMin2(RInt(1),
                  RAdd(RAdd(RMul(RMin2(RDiv(sharpness, RInt(1000)), RInt(1)), Rat(3, 10)),
                            RMul(RMin2(RDiv(contrast, RInt(50)), RInt(1)), Rat(3, 10))),
                       RAdd(RMul(RSub(RInt(1), RMin2(RDiv(noise_level, RInt(20)), RInt(1))),
                                 Rat(1, 5)),
                            RMul(RSub(RInt(1),
                                      RDiv(RAbs(RSub(brightness, RInt(128))), RInt(128))),
                                 Rat(1, 5)))))
    IN  [sharpness |-> sharpness,
         brightness |-> brightness,
         contrast |-> contrast,
         noise_level |-> noise_level,
         quality_score |-> quality_score]

\* labels l with 'person' in l.lower()
PersonLabels == {"person", "Person"}

\* what the segmentation model returns for the image
Segments ==
    <<[label |-> "Person", score |-> Rat(9, 10)],
      [label |-> "chair", score |-> Rat(2, 5)],
      [label |-> "tree", score |-> Rat(3, 5)]>>

Confident(segment) == RLt(Rat(1, 2), segment.score)

IsPerson(segment) == Confident(segment) /\ segment.label \in PersonLabels

\* _detect_objects catches its own exceptions: without a model, or when the
\* model call raises, the empty objects_data is returned
_detect_objects(m) ==
    LET segments == IF m.segmentation = "ok" THEN Segments ELSE <<>>
        kept == SelectSeq(segments, Confident)
        people == SelectSeq(segments, IsPerson)
    IN  [objects |-> [k \in 1..Len(kept) |->
                         [label |-> kept[k].label, confidence |-> kept[k].score]],
         people_count |-> Len(people),
         main_subjects |-> [k \in 1..Len(people) |-> people[k].label]]

_analyze_lighting(m) == [lighting |-> m.lighting]

_analyze_features(m) == [features |-> m.features]

_estimate_camera_params(m) ==
    [camera |-> [estimated_focal_length |-> RMul(Rat(50, 36), RInt(m.w)),
                 principal_point |-> <<Rat(m.w, 2), Rat(m.h, 2)>>,
                 image_dimensions |-> <<m.w, m.h>>]]

\* what cv2 and numpy measure on the image
SharpnessVals == {RInt(0), RInt(10), RInt(2000)}

ContrastVals == {RInt(0), RInt(25), RInt(100)}

BrightnessVals == {RInt(0), RInt(128), RInt(255)}

Measurements ==
    {[decodable |-> FALSE]} \cup
    {[decodable |-> TRUE, h |-> 3, w |-> 4,
      sharpness |-> sh, contrast |-> co, brightness |-> br,
      segmentation |-> sg,
      lighting |-> [mean_luminance |-> RInt(102),
                    luminance_variance |-> RInt(30),
                    shadow_ratio |-> Rat(1, 4),
                    highlight_ratio |-> Rat(1, 10),
                    estimated_light_direction |-> [x |-> RInt(2), y |-> RInt(2)]],
      features |-> [corner_count |-> 5, edge_density |-> Rat(1, 5), line_count |-> 0]] :
        sh \in SharpnessVals, co \in ContrastVals, br \in BrightnessVals,
        sg \in {"None", "ok", "raises"}}

\* the dict of the except clause of analyze_image
AnalysisError(msg) == [error |-> msg, quality_score |-> Rat(1, 2)]

InitAnalyze ==
    /\ measured \in Measurements
    /\ a_analysis = EmptyDict
    /\ a_result = EmptyDict
    /\ a_pc = "load"
    /\ opt_calls = <<>>
    /\ IdleExport
    /\ image = NoImage
    /\ depth_map = <<>>
    /\ IdleDepth
    /\ IdleScene
    /\ IdleGrid
    /\ IdleLater

\* cv2.imread, cv2.cvtColor (which raises on None) and the first keys
AiLoad ==
    /\ a_pc = "load"
    /\ IF measured.decodable
       THEN /\ a_analysis' = [resolution |-> <<measured.h, measured.w>>,
                              aspect_ratio |-> Rat(measured.w, measured.h),
                              file_path |-> "image_path"]
            /\ a_pc' = "quality"
            /\ UNCHANGED a_result
       ELSE /\ a_result' = AnalysisError("cvtColor")
            /\ a_pc' = "done"
            /\ UNCHANGED a_analysis
    /\ UNCHANGED <<image, depth_map, depthVars, sceneVars, gridVars, laterVars, opt_calls,
                   exportVars, measured>>

\* analysis.update(self._analyze_quality(image)), or an exception of cv2
AiQuality ==
    /\ a_pc = "quality"
    /\ \/ /\ a_analysis' = Update(a_analysis, _analyze_quality(measured))
          /\ a_pc' = "objects"
          /\ UNCHANGED a_result
       \/ /\ a_result' = AnalysisError("quality")
          /\ a_pc' = "done"
          /\ UNCHANGED a_analysis
    /\ UNCHANGED <<image, depth_map, depthVars, sceneVars, gridVars, laterVars, opt_calls,
                   exportVars, measured>>

\* analysis.update(self._detect_objects(pil_image)); nothing escapes it
AiObjects ==
    /\ a_pc = "objects"
    /\ a_analysis' = Update(a_analysis, _detect_objects(measured))
    /\ a_pc' = "lighting"
    /\ UNCHANGED <<image, depth_map, depthVars, sceneVars, gridVars, laterVars, opt_calls,
                   exportVars, measured, a_result>>

AiLighting ==
    /\ a_pc = "lighting"
    /\ \/ /\ a_analysis' = Update(a_analysis, _analyze_lighting(measured))
          /\ a_pc' = "features"
          /\ UNCHANGED a_result
       \/ /\ a_result' = AnalysisError("lighting")
          /\ a_pc' = "done"
          /\ UNCHANGED a_analysis
    /\ UNCHANGED <<image, depth_map, depthVars, sceneVars, gridVars, laterVars, opt_calls,
                   exportVars, measured>>

AiFeatures ==
    /\ a_pc = "features"
    /\ \/ /\ a_analysis' = Update(a_analysis, _analyze_features(measured))
          /\ a_pc' = "camera"
          /\ UNCHANGED a_result
       \/ /\ a_result' = AnalysisError("features")
          /\ a_pc' = "done"
          /\ UNCHANGED a_analysis
    /\ UNCHANGED <<image, depth_map, depthVars, sceneVars, gridVars, laterVars, opt_calls,
                   exportVars, measured>>

\* the last update and return analysis
AiCamera ==
    /\ a_pc = "camera"
    /\ \/ /\ a_analysis' = Update(a_analysis, _estimate_camera_params(measured))
          /\ a_result' = a_analysis'
       \/ /\ a_result' = AnalysisError("camera")
          /\ UNCHANGED a_analysis
    /\ a_pc' = "done"
    /\ UNCHANGED <<image, depth_map, depthVars, sceneVars, gridVars, laterVars, opt_calls,
                   exportVars, measured>>

NextAnalyze == AiLoad \/ AiQuality \/ AiObjects \/ AiLighting \/ AiFeatures \/ AiCamera

SpecAnalyze == InitAnalyze /\ [][NextAnalyze]_vars

(***************************************************************************)
(* SceneGenerator._generate_mesh on Poisson surfaces of any size.  The     *)
(* surface Open3D returns does not follow from the size of the cloud, so   *)
(* its face count is drawn from counts around the decimation threshold.    *)
(***************************************************************************)
Margin == 20

ReconFaceCounts ==
    {4, 4 * DecimationTarget}
    \cup ((DecimationThreshold - Margin)..(DecimationThreshold + Margin))

NeedsDecimationInclusive(n) == n >= DecimationThreshold

\* if len(faces) > 50000
NeedsDecimation(n) == n > DecimationThreshold

\* face counts simplify_quadric_decimation(25000) stops at: the target, or
\* one below it when the last collapse removes two faces
DecimatedCounts == {DecimationTarget, DecimationTarget - 1}

\* a closed surface of n triangles has n / 2 + 2 vertices
SurfaceVertexCount(n) == n \div 2 + 2

\* the trimesh object of a surface of n faces
Surface(n) ==
    LET nv == SurfaceVertexCount(n)
    IN  [vertices |-> [k \in 1..nv |-> <<RInt(k % 2), RInt((k \div 2) % 2), RInt(1)>>],
         faces |-> [k \in 1..n |-> <<0, ((k - 1) % (nv - 2)) + 1, ((k - 1) % (nv - 2)) + 2>>],
         vertex_colors |-> [k \in 1..nv |-> <<128, 128, 128>>]]

\* trimesh_obj.bounds: the corners of the box around the vertices
SurfaceBounds(vertices) ==
    LET xs == {vertices[k][1] : k \in 1..Len(vertices)}
        ys == {vertices[k][2] : k \in 1..Len(vertices)}
        zs == {vertices[k][3] : k \in 1..Len(vertices)}
        lo(S) == CHOOSE a \in S : \A b \in S : RLe(a, b)
        hi(S) == CHOOSE a \in S : \A b \in S : RLe(b, a)
    IN  <<<<lo(xs), lo(ys), lo(zs)>>, <<hi(xs), hi(ys), hi(zs)>>>>

\* the mesh_data dict of the try block; center_mass is a point inside the
\* box, taken here as its middle
SurfaceMesh(t) ==
    LET vertices == t.vertices
        faces == t.faces
        bounds == SurfaceBounds(vertices)
    IN  [vertices |-> vertices,
         faces |-> faces,
         vertex_colors |-> t.vertex_colors,
         vertex_count |-> Len(vertices),
         face_count |-> Len(faces),
         bounds |-> bounds,
         center |-> [c \in 1..3 |-> RDiv(RAdd(bounds[1][c], bounds[2][c]), RInt(2))]]

InitDecimate ==
    /\ points = SamplePoints
    /\ colors = SampleColors
    /\ s_pc = "mesh"
    /\ recon_faces = -1
    /\ image_analysis = EmptyDict
    /\ camera_params = EmptyDict
    /\ extend_background = FALSE
    /\ mesh_data = EmptyDict
    /\ mesh_path = "none"
    /\ result = EmptyDict
    /\ image = NoImage
    /\ depth_map = <<>>
    /\ opt_calls = <<>>
    /\ IdleDepth
    /\ IdleGrid
    /\ IdleExport
    /\ IdleAnalyze
    /\ IdleApp

\* normals, Poisson reconstruction and the trimesh object: a surface, or
\* an exception that hands the cloud to _create_simple_mesh
DmReconstruct ==
    /\ s_pc = "mesh"
    /\ recon_faces = -1
    /\ \/ /\ \E n \in ReconFaceCounts : recon_faces' = n
          /\ s_pc' = "decimate"
          /\ UNCHANGED mesh_path
       \/ /\ mesh_path' = "fallback"
          /\ s_pc' = "simple"
          /\ UNCHANGED recon_faces
    /\ UNCHANGED <<image, depth_map, depthVars, gridVars, opt_calls, exportVars,
                   analyzeVars, appVars, image_analysis, camera_params, extend_background,
                   points, colors, mesh_data, result>>

\* the optional decimation and the mesh_data dict that is returned
DmDecimate ==
    /\ s_pc = "decimate"
    /\ \/ /\ \E n \in (IF NeedsDecimation(recon_faces) THEN DecimatedCounts
                       ELSE {recon_faces}) :
                mesh_data' = SurfaceMesh(Surface(n))
          /\ mesh_path' = "poisson"
          /\ s_pc' = "extend"
       \/ /\ NeedsDecimation(recon_faces)
          /\ mesh_path' = "fallback"
          /\ s_pc' = "simple"
          /\ UNCHANGED mesh_data
    /\ UNCHANGED <<image, depth_map, depthVars, gridVars, opt_calls, exportVars,
                   analyzeVars, appVars, image_analysis, camera_params, extend_background,
                   points, colors, result, recon_faces>>

NextDecimate == DmReconstruct \/ DmDecimate \/ _create_simple_mesh

SpecDecimate == InitDecimate /\ [][NextDecimate]_vars

(***************************************************************************)
(* The Flask application: upload_image, start_processing, the pipeline     *)
(* thread process_image_pipeline, and the read-only routes.  Requests are  *)
(* served concurrently with each other and with the pipeline threads, so   *)
(* every read or write of processing_status is a step of its own.          *)
(***************************************************************************)
MaxRequests == 2

SessionIds == {"s1"}

UnknownIds == {"s0"}

RequestIds == SessionIds \cup UnknownIds

\* request.files of an upload: no 'image' part, an empty filename, or a name
UploadedFiles == {"no image", "", "photo.jpg", "notes.txt"}

is_allowed_file(filename) == filename \in {"photo.jpg"}

PipelineSteps ==
    << <<0, "Analyzing Image">>, <<20, "Analyzing Image">>,
       <<20, "Depth Reconstruction">>, <<40, "Depth Reconstruction">>,
       <<40, "Scene Generation">>, <<70, "Scene Generation">>,
       <<70, "Lighting Optimization">>, <<90, "Lighting Optimization">>,
       <<90, "AR Preparation">> >>

MockQualityScore == 85

ScenePath(session_id) == <<"processed", session_id, "_scene.glb">>

PreviewPath(session_id) == <<"processed", session_id, "_preview.jpg">>

ResultData(session_id) ==
    [quality_score |-> RInt(MockQualityScore),
     scene_complexity |-> Rat(7, 10),
     ar_scene_path |-> ScenePath(session_id),
     preview_path |-> PreviewPath(session_id)]

update_progress(status_dict, session_id, progress, step, status) ==
    Put(status_dict, session_id,
        Update(status_dict[session_id],
               [progress |-> progress, current_step |-> step, status |-> status]))

update_session_status(sessions, session_id, status) ==
    IF session_id \in DOMAIN sessions
    THEN Put(sessions, session_id, Update(sessions[session_id], [status |-> status]))
    ELSE sessions

\* a save that stores nothing, against which the stored result is checked
SaveSessionResultDropped(results, session_id, result_data) == results

\* the upsert of the result document
save_session_result(results, session_id, result_data) ==
    Put(results, session_id,
        [session_id |-> session_id,
         quality_score |-> result_data.quality_score,
         scene_complexity |-> result_data.scene_complexity,
         ar_scene_path |-> result_data.ar_scene_path,
         preview_path |-> result_data.preview_path])

\* Python's None where a document is expected
NoDocument == [none |-> TRUE]

\* the stored document, or None when there is none or the driver raises
get_session_result(session_id) ==
    IF db = "connected" /\ session_id \in DOMAIN db_results
    THEN db_results[session_id]
    ELSE NoDocument

GetResult(session_id) ==
    IF session_id \notin DOMAIN processing_status
    THEN [route |-> "result", session_id |-> session_id, code |-> 404]
    ELSE IF processing_status[session_id].status # "completed"
    THEN [route |-> "result", session_id |-> session_id, code |-> 400]
    ELSE [route |-> "result", session_id |-> session_id, code |-> 200,
          status |-> "completed",
          result |-> IF db = "None" THEN NoDocument
                     ELSE get_session_result(session_id),
          ar_scene_url |-> <<"/api/scene/", session_id>>,
          preview_url |-> <<"/api/preview/", session_id>>]

SendFile(route, session_id, path) ==
    IF path \notin files
    THEN [route |-> route, session_id |-> session_id, code |-> 404]
    ELSE [route |-> route, session_id |-> session_id, code |-> 200, file |-> path]

GetArScene(session_id) == SendFile("scene", session_id, ScenePath(session_id))

GetPreviewImage(session_id) ==
    SendFile("preview", session_id, PreviewPath(session_id))

InitApp ==
    /\ processing_status = EmptyDict
    /\ db \in {"None", "connected"}
    /\ db_sessions = EmptyDict
    /\ db_results = EmptyDict
    /\ files = {}
    /\ handlers = <<>>
    /\ threads = <<>>
    /\ image = NoImage
    /\ depth_map = <<>>
    /\ opt_calls = <<>>
    /\ recon_faces = -1
    /\ IdleDepth
    /\ IdleScene
    /\ IdleGrid
    /\ IdleExport
    /\ IdleAnalyze

pipelineVars == <<image, depth_map, depthVars, sceneVars, gridVars, opt_calls,
                  exportVars, analyzeVars, recon_faces>>

\* the connection to MongoDB drops: every later driver call raises
DbLost ==
    /\ db = "connected"
    /\ db' = "lost"
    /\ UNCHANGED <<pipelineVars, processing_status, db_sessions, db_results, files,
                   handlers, threads>>

UploadResponse(file, session_id) ==
    IF file = "no image" \/ file = "" \/ ~is_allowed_file(file)
    THEN [route |-> "upload", code |-> 400]
    ELSE IF db = "lost"
    THEN [route |-> "upload", code |-> 500]
    ELSE [route |-> "upload", code |-> 200, session_id |-> session_id,
          status |-> "uploaded"]

upload_image ==
    \E file \in UploadedFiles, session_id \in SessionIds \ DOMAIN processing_status :
        IF UploadResponse(file, session_id).code = 400
        THEN UNCHANGED vars
        ELSE /\ files' = files \cup {<<"uploads", session_id, file>>}
             /\ processing_status' =
                    Put(processing_status, session_id,
                        [status |-> "uploaded", progress |-> 0,
                         current_step |-> "Analyzing Image",
                         file_path |-> <<"uploads", session_id, file>>])
             /\ IF db = "connected"
                THEN db_sessions' = Put(db_sessions, session_id,
                                        [filename |-> file, status |-> "uploaded"])
                ELSE UNCHANGED db_sessions
             /\ UNCHANGED <<pipelineVars, db, db_results, handlers, threads>>

\* a start_processing request arrives
SpRequest ==
    /\ Len(handlers) < MaxRequests
    /\ \E session_id \in RequestIds :
           handlers' = Append(handlers, [session_id |-> session_id, pc |-> "check",
                                         code |-> 0])
    /\ UNCHANGED <<pipelineVars, processing_status, db, db_sessions, db_results,
                   files, threads>>

\* the two checks of start_processing
SpCheck(h) ==
    /\ handlers[h].pc = "check"
    /\ LET session_id == handlers[h].session_id IN
       handlers' = [handlers EXCEPT ![h] =
           IF session_id \notin DOMAIN processing_status
           THEN [@ EXCEPT !.pc = "done", !.code = 404]
           ELSE IF processing_status[session_id].status = "processing"
           THEN [@ EXCEPT !.pc = "done", !.code = 400]
           ELSE [@ EXCEPT !.pc = "start"]]
    /\ UNCHANGED <<pipelineVars, processing_status, db, db_sessions, db_results,
                   files, threads>>

\* thread.start()
SpThread(h) ==
    /\ handlers[h].pc = "start"
    /\ threads' = Append(threads, [session_id |-> handlers[h].session_id,
                                   pc |-> "progress", step |-> 1])
    /\ handlers' = [handlers EXCEPT ![h].pc = "mark"]
    /\ UNCHANGED <<pipelineVars, processing_status, db, db_sessions, db_results,
                   files>>

\* processing_status[session_id]['status'] = 'processing', and the answer
SpMark(h) ==
    /\ handlers[h].pc = "mark"
    /\ processing_status' =
           Put(processing_status, handlers[h].session_id,
               Update(processing_status[handlers[h].session_id],
                      [status |-> "processing"]))
    /\ handlers' = [handlers EXCEPT ![h] = [@ EXCEPT !.pc = "done", !.code = 200]]
    /\ UNCHANGED <<pipelineVars, db, db_sessions, db_results, files, threads>>

start_processing == \E h \in DOMAIN handlers : SpCheck(h) \/ SpThread(h) \/ SpMark(h)

\* the next update_progress(session_id, p, step) of the thread
PpProgress(t) ==
    /\ threads[t].pc = "progress"
    /\ LET session_id == threads[t].session_id
           step == PipelineSteps[threads[t].step] IN
       processing_status' =
           update_progress(processing_status, session_id, step[1], step[2], "processing")
    /\ threads' = [threads EXCEPT ![t] =
           IF @.step = Len(PipelineSteps)
           THEN [@ EXCEPT !.pc = "save"]
           ELSE [@ EXCEPT !.step = @ + 1]]
    /\ UNCHANGED <<pipelineVars, db, db_sessions, db_results, files, handlers>>

\* if db: db.save_session_result(session_id, result_data)
PpSave(t) ==
    /\ threads[t].pc = "save"
    /\ LET session_id == threads[t].session_id IN
       IF db = "connected"
       THEN /\ db_results' = save_session_result(db_results, session_id,
                                                 ResultData(session_id))
            /\ db_sessions' = update_session_status(db_sessions, session_id, "completed")
       ELSE UNCHANGED <<db_results, db_sessions>>
    /\ threads' = [threads EXCEPT ![t].pc = "complete"]
    /\ UNCHANGED <<pipelineVars, processing_status, db, files, handlers>>

\* update_progress(session_id, 100, 'AR Preparation', 'completed')
PpComplete(t) ==
    /\ threads[t].pc = "complete"
    /\ processing_status' =
           update_progress(processing_status, threads[t].session_id, 100,
                           "AR Preparation", "completed")
    /\ threads' = [threads EXCEPT ![t].pc = "ended"]
    /\ UNCHANGED <<pipelineVars, db, db_sessions, db_results, files, handlers>>

\* Nothing inside the try block raises: the status dict exists for every
\* started session and save_session_result swallows the driver's
\* exceptions, so the except clause that writes 'error' is never entered.
process_image_pipeline == \E t \in DOMAIN threads : PpProgress(t) \/ PpSave(t) \/ PpComplete(t)

GetProcessingStatus(session_id) ==
    IF session_id \notin DOMAIN processing_status
    THEN [route |-> "status", session_id |-> session_id, code |-> 404]
    ELSE [route |-> "status", session_id |-> session_id, code |-> 200,
          body |-> processing_status[session_id]]

\* the read-only routes answer from the state and leave it as it is
get_processing_status ==
    /\ \E session_id \in RequestIds : GetProcessingStatus(session_id).code \in {200, 404}
    /\ UNCHANGED vars

get_result ==
    /\ \E session_id \in RequestIds : GetResult(session_id).code \in {200, 400, 404}
    /\ UNCHANGED vars

get_ar_scene ==
    /\ \E session_id \in RequestIds :
           GetArScene(session_id).code \in {200, 404}
    /\ UNCHANGED vars

get_preview_image ==
    /\ \E session_id \in RequestIds :
           GetPreviewImage(session_id).code \in {200, 404}
    /\ UNCHANGED vars

NextApp ==
    \/ upload_image
    \/ start_processing
    \/ process_image_pipeline
    \/ get_processing_status
    \/ get_result
    \/ get_ar_scene
    \/ get_preview_image
    \/ SpRequest
    \/ DbLost

SpecApp == InitApp /\ [][NextApp]_vars

(***************************************************************************)
(* Properties of estimate_depth (checked under SpecDepth).                 *)
(***************************************************************************)
IsConstantMap(dm) == \A i, j \in 1..Len(dm) : dm[i] = dm[j]

InUnitInterval(r) == RLe(RInt(0), r) /\ RLe(r, RInt(1))

\* estimate_depth returned through _normalize_depth (the model path)
ReturnedByNormalize == d_pc = "done" /\ "gradient" \notin SeqVals(steps)

\* estimate_depth returned through _simple_depth_estimation
ReturnedByFallback == d_pc = "done" /\ "gradient" \in SeqVals(steps)

\* C5: _normalize_depth(D) has minimum 0, maximum 1 and every value in
\* [0,1]; a constant D gives the all-zero map of the same shape, and no
\* 0/0 is evaluated (no value of the result is not-a-number).
C5_NormalizeRange ==
    ReturnedByNormalize =>
        /\ Len(normalized) = Len(depth_map)
        /\ \A k \in 1..Len(normalized) : ~IsNaN(normalized[k])
        /\ IF IsConstantMap(depth_map)
           THEN normalized = Zeros(Len(depth_map))
           ELSE /\ SeqMin(normalized) = RInt(0)
                /\ SeqMax(normalized) = RInt(1)
                /\ \A k \in 1..Len(normalized) : InUnitInterval(normalized[k])

\* a non-constant map was normalized and one value lies strictly inside (0,1)
C5_Witness ==
    /\ ReturnedByNormalize
    /\ ~IsConstantMap(depth_map)
    /\ \E k \in 1..Len(normalized) :
          RLt(RInt(0), normalized[k]) /\ RLt(normalized[k], RInt(1))

\* C6: on every path of estimate_depth normalization is the last step, and
\* a zero-span (constant) map comes back as the all-zero map, never as an
\* error or as undefined values.
C6_ZeroSpanOnEveryPath ==
    d_pc = "done" =>
        /\ steps[Len(steps)] = "normalize"
        /\ IsConstantMap(depth_map) => normalized = Zeros(Len(depth_map))

(***************************************************************************)
(* Properties of generate_3d_scene (checked under Spec).                   *)
(***************************************************************************)
MeshKeys ==
    {"vertices", "faces", "vertex_colors", "vertex_count", "face_count",
     "bounds", "center"}

\* _extend_background has run on the mesh
Extended ==
    /\ extend_background
    /\ s_pc \in {"lighting", "complexity", "quality"} \/ (s_pc = "done" /\ "vertices" \in DOMAIN result)

\* C1: after _extend_background every index of every face is smaller than
\* the number of vertices, and the two new faces are [n, n+1, n+2] and
\* [n, n+2, n+3] for the pre-extension vertex count n.
C1_FaceIndicesValid ==
    Extended =>
        LET total == Len(mesh_data.vertices)
            n == total - 4
            nf == Len(mesh_data.faces)
        IN  /\ \A k \in 1..nf : \A c \in 1..3 :
                  mesh_data.faces[k][c] >= 0 /\ mesh_data.faces[k][c] < total
            /\ mesh_data.faces[nf - 1] = <<n, n + 1, n + 2>>
            /\ mesh_data.faces[nf] = <<n, n + 2, n + 3>>

\* C2: _extend_background appends exactly 4 vertices and 2 faces, every
\* index of the two new faces is >= the original vertex count, the old
\* vertices and faces are unchanged, and vertex_count and face_count grow
\* by 4 and 2 and still equal the lengths of the lists.
C2_ExtendAppends ==
    [][(s_pc = "extend" /\ extend_background) =>
         LET old == mesh_data
             new == mesh_data'
             n == Len(old.vertices)
             m == Len(old.faces)
         IN  /\ Len(new.vertices) = n + 4
             /\ Len(new.faces) = m + 2
             /\ SubSeq(new.vertices, 1, n) = old.vertices
             /\ SubSeq(new.faces, 1, m) = old.faces
             /\ \A k \in (m + 1)..(m + 2) : \A c \in 1..3 : new.faces[k][c] >= n
             /\ new.vertex_count = old.vertex_count + 4
             /\ new.face_count = old.face_count + 2
             /\ new.vertex_count = Len(new.vertices)
             /\ new.face_count = Len(new.faces)]_vars

\* a mesh with faces of its own has been extended
C2_Witness ==
    /\ Extended
    /\ s_pc = "lighting"
    /\ mesh_data.face_count >= 3
    /\ mesh_data.vertex_count >= 7

\* C3: whenever the Poisson path fails, _create_simple_mesh returns a mesh
\* record (at worst with zero faces) for every cloud, the empty cloud and
\* clouds of 1 or 2 points included; it does not raise.
C3_FallbackNeverRaises ==
    (mesh_path = "fallback" /\ s_pc # "simple") => MeshKeys \subseteq DOMAIN mesh_data

\* C4: generate_3d_scene never raises and on every path returns a scene
\* with vertices, faces, lighting, complexity_score and quality_score.
C4_ResultIsScene ==
    s_pc = "done" =>
        {"vertices", "faces", "lighting", "complexity_score", "quality_score"}
            \subseteq DOMAIN result

\* C8: for a constant image with the all-zero depth map the cloud has at
\* most as many points as pixels and the result's quality_score is
\* min(1, 0.6 * image quality + 0.4 * complexity_score of the mesh).
C8_ConstantImageBlend ==
    (/\ s_pc = "done"
     /\ image # NoImage
     /\ IsConstantImage(image)
     /\ depth_map = Zeros(NumPixels(image))) =>
        /\ Len(points) <= NumPixels(image)
        /\ "complexity_score" \in DOMAIN result
        /\ result.quality_score =
              RMin2(RInt(1),
                    RAdd(RMul(image_analysis.quality_score, Rat(3, 5)),
                         RMul(result.complexity_score, Rat(2, 5))))

(***************************************************************************)
(* Properties of the projections (checked under SpecProject).              *)
(***************************************************************************)
\* the Z of pixel k in the stage that ran
StageZ(k) ==
    RMul(depth_map[k], IF s_pc = "depth_cloud" THEN RInt(10) ELSE RInt(5))

StageInRange(z) ==
    IF s_pc = "depth_cloud" THEN RLt(RInt(0), z) /\ RLt(z, RInt(100))
    ELSE RLt(Rat(1, 10), z) /\ RLt(z, RInt(20))

StagePoint(k) ==
    IF s_pc = "depth_cloud"
    THEN Project(k, image.w, StageZ(k),
                 Get(camera_params, "fx", Rat(7 * image.w, 10)),
                 Get(camera_params, "fy", Rat(7 * image.w, 10)),
                 Get(camera_params, "cx", Rat(image.w, 2)),
                 Get(camera_params, "cy", Rat(image.h, 2)))
    ELSE LET f == Get(Get(image_analysis, "camera", EmptyDict),
                      "estimated_focal_length", Rat(7 * image.w, 10))
         IN  Project(k, image.w, StageZ(k), f, f, Rat(image.w, 2), Rat(image.h, 2))

StageColor(k) ==
    IF s_pc = "depth_cloud" THEN image.pix[k]
    ELSE [c \in 1..3 |-> Rat(image.pix[k][c], 255)]

\* C7: every retained point has Z strictly inside the stage's range
\* ((0,100) with z = 10*depth, (0.1,20) with z = 5*depth); a pixel outside
\* the range is removed, a pixel inside is kept with its computed
\* coordinates, colours stay paired with their points, and there are at
\* most height*width points.
C7_ProjectionFilter ==
    s_pc \in {"scene_cloud", "depth_cloud"} =>
        LET n == NumPixels(image)
            kept == {k \in 1..n : StageInRange(StageZ(k))}
        IN  /\ Len(points) = Len(colors)
            /\ Len(points) <= n
            /\ Len(points) = Cardinality(kept)
            /\ \A j \in 1..Len(points) : StageInRange(points[j][3])
            /\ \E f \in [1..Len(points) -> 1..n] :
                  /\ \A j \in 1..Len(points) : f[j] \in kept
                  /\ \A i, j \in 1..Len(points) : i < j => f[i] < f[j]
                  /\ \A j \in 1..Len(points) :
                        points[j] = StagePoint(f[j]) /\ colors[j] = StageColor(f[j])

\* a projection that kept some pixels and removed others
C7_Witness ==
    /\ s_pc \in {"scene_cloud", "depth_cloud"}
    /\ Len(points) >= 1
    /\ Len(points) < NumPixels(image)

(***************************************************************************)
(* Properties of the grid triangulation (checked under SpecGrid).          *)
(***************************************************************************)
GridIndicesValid ==
    \A k \in 1..Len(grid_faces) : \A c \in 1..3 :
        grid_faces[k][c] >= 0 /\ grid_faces[k][c] < n_points

GridCoversFour ==
    n_points = 4 =>
        /\ Len(grid_faces) = 2
        /\ {grid_faces[k][c] : k \in 1..Len(grid_faces), c \in 1..3} = 0..3

\* C9 as stated: for every n, with g = floor(sqrt(n)), exactly 2*(g-1)^2
\* triangles are emitted, every index lies in [0, n), and n = 4 gives 2
\* triangles covering the 4 points.
C9_GridCountEveryN ==
    g_pc = "done" =>
        /\ Len(grid_faces) = 2 * (GridSize(n_points) - 1) * (GridSize(n_points) - 1)
        /\ GridIndicesValid
        /\ GridCoversFour

\* C9 amended: the count 2*(g-1)^2 holds for every n >= 1; for n = 0 no
\* triangle is emitted.
C9_GridCount ==
    g_pc = "done" =>
        /\ n_points >= 1 =>
              Len(grid_faces) = 2 * (GridSize(n_points) - 1) * (GridSize(n_points) - 1)
        /\ n_points = 0 => grid_faces = <<>>
        /\ GridIndicesValid
        /\ GridCoversFour

\* the grid of a 3 x 3 cloud: 8 triangles
C9_Witness == g_pc = "done" /\ n_points = 9 /\ Len(grid_faces) = 8

(***************************************************************************)
(* Properties of the scores (checked under SpecScore).                     *)
(***************************************************************************)
\* C10: for any vertex_count, face_count and finite image quality_score,
\* _calculate_complexity and _calculate_scene_quality return values in [0,1].
C10_ScoresInUnitInterval ==
    /\ "complexity_score" \in DOMAIN mesh_data => InUnitInterval(mesh_data.complexity_score)
    /\ "quality_score" \in DOMAIN mesh_data => InUnitInterval(mesh_data.quality_score)

(***************************************************************************)
(* Properties of the two scores inside generate_3d_scene (checked under    *)
(* SpecSceneScore).                                                        *)
(***************************************************************************)
ScoredResult == s_pc = "done" /\ "complexity_score" \in DOMAIN result

ExpectedComplexity(vertex_count, face_count) ==
    LET v == IF vertex_count >= 50000 THEN RInt(1) ELSE Rat(vertex_count, 50000)
        f == IF face_count >= 100000 THEN RInt(1) ELSE Rat(face_count, 100000)
    IN  RDiv(RAdd(v, f), RInt(2))

ExpectedQuality(image_quality, complexity) ==
    LET blend == RAdd(RMul(Rat(3, 5), image_quality), RMul(Rat(2, 5), complexity))
    IN  IF RLt(RInt(1), blend) THEN RInt(1) ELSE blend

\* C11: complexity = (min(1, vertex_count/50000) + min(1, face_count/100000))/2
\* and quality = min(1, 0.6*image quality + 0.4*complexity); the complexity
\* in the returned scene is that of the final mesh (the counts after the
\* optional background extension), and the quality is computed from it,
\* never from the default 0.5.
C11_QualityUsesFinalComplexity ==
    ScoredResult =>
        /\ "vertices" \in DOMAIN result =>
              /\ result.vertex_count = Len(result.vertices)
              /\ result.face_count = Len(result.faces)
        /\ result.complexity_score =
              ExpectedComplexity(result.vertex_count, result.face_count)
        /\ result.quality_score =
              ExpectedQuality(Get(image_analysis, "quality_score", Rat(4, 5)),
                              ExpectedComplexity(result.vertex_count, result.face_count))

\* an extended mesh: 4 ground vertices and 2 ground faces are counted
C11_Witness ==
    /\ ScoredResult
    /\ extend_background
    /\ "vertices" \in DOMAIN result
    /\ Len(result.vertices) >= 7
    /\ result.complexity_score = ExpectedComplexity(Len(result.vertices), Len(result.faces))
    /\ result.complexity_score # Rat(1, 2)

(***************************************************************************)
(* Properties of export_ar_scene (checked under SpecExport).               *)
(***************************************************************************)
\* the JSON fallback was entered and has ended
FallbackEnded ==
    \/ e_pc = "raised"
    \/ e_pc = "done" /\ exported.file_type = "json"

\* the path with its final extension (a '.' of the base name, not its first
\* character) removed, as os.path.splitext does
Stem(path) ==
    LET slashes == {i \in 1..Len(path) : path[i] = "/"}
        base == IF slashes = {} THEN 1
                ELSE (CHOOSE i \in slashes : \A j \in slashes : j <= i) + 1
        dots == {i \in (base + 1)..Len(path) : path[i] = "."}
    IN  IF dots = {} THEN path
        ELSE SubSeq(path, 1, (CHOOSE i \in dots : \A j \in dots : j <= i) - 1)

\* Python's == on two lists of lists of floats (nan equals nothing)
FloatRowsEqual(a, b) ==
    /\ Len(a) = Len(b)
    /\ \A k \in 1..Len(a) :
          /\ Len(a[k]) = Len(b[k])
          /\ \A c \in 1..Len(a[k]) : REq(a[k][c], b[k][c])

\* Python's == on two lists of lists of ints
IntRowsEqual(a, b) ==
    /\ Len(a) = Len(b)
    /\ \A k \in 1..Len(a) :
          /\ Len(a[k]) = Len(b[k])
          /\ \A c \in 1..Len(a[k]) : a[k][c] = b[k][c]

\* C12: whenever building or serializing the mesh fails, for any scene
\* record, export_ar_scene does not raise (the target being writable): it
\* writes a JSON document with the keys format, version, geometry
\* {vertices, faces, vertex_colors}, lighting and metadata {vertex_count,
\* face_count, bounds, center} whose values equal those of the scene, and
\* returns the path with its extension replaced by .json.
C12_JsonFallbackNeverRaises ==
    (FallbackEnded /\ writable) =>
        /\ e_pc = "done"
        /\ LET doc == JsonLoad(exported.content)
           IN  /\ DOMAIN doc = {"format", "version", "geometry", "lighting", "metadata"}
               /\ DOMAIN doc.geometry = {"vertices", "faces", "vertex_colors"}
               /\ DOMAIN doc.metadata = {"vertex_count", "face_count", "bounds", "center"}
               /\ FloatRowsEqual(doc.geometry.vertices, scene_data.vertices)
               /\ IntRowsEqual(doc.geometry.faces, scene_data.faces)
               /\ "vertex_colors" \in DOMAIN scene_data =>
                     IntRowsEqual(doc.geometry.vertex_colors, scene_data.vertex_colors)
               /\ \A k \in {"vertex_count", "face_count", "bounds", "center"} :
                     k \in DOMAIN scene_data => doc.metadata[k] = scene_data[k]
               /\ "lighting" \in DOMAIN scene_data => doc.lighting = scene_data.lighting
        /\ returned_path = Stem(path_arg) \o JsonExt
        /\ exported.path = returned_path

\* C13: for every scene, writing it with the JSON fallback and parsing the
\* written document back yields geometry.vertices, geometry.faces and
\* geometry.vertex_colors equal to the scene's vertices, faces and
\* vertex_colors: same order, same values.
C13_JsonRoundTrip ==
    (e_pc = "done" /\ exported.file_type = "json") =>
        LET geometry == JsonLoad(exported.content).geometry
        IN  /\ FloatRowsEqual(geometry.vertices, scene_data.vertices)
            /\ IntRowsEqual(geometry.faces, scene_data.faces)
            /\ IF "vertex_colors" \in DOMAIN scene_data
               THEN IntRowsEqual(geometry.vertex_colors, scene_data.vertex_colors)
               ELSE geometry.vertex_colors = <<>>

\* the extended scene written as JSON: 7 vertices with fractional
\* coordinates, 3 faces, 7 colours
C13_Witness ==
    /\ e_pc = "done"
    /\ exported.file_type = "json"
    /\ Len(scene_data.vertices) = 7
    /\ Len(JsonLoad(exported.content).geometry.vertices) = 7
    /\ Len(JsonLoad(exported.content).geometry.faces) = 3
    /\ Len(JsonLoad(exported.content).geometry.vertex_colors) = 7
    /\ \E k \in 1..7 : scene_data.vertices[k][1][2] > 1

Recognised(path) ==
    EndsWith(path, GlbExt) \/ EndsWith(path, GltfExt) \/ EndsWith(path, ObjExt)

\* C14: when the mesh is exported, a path whose extension is not .glb,
\* .gltf or .obj (.usdz, or no extension at all) gives a GLB file at the
\* same path with only its final extension replaced by .glb, directory and
\* base name unchanged; a path ending in .glb, .gltf or .obj is exported in
\* that format and returned unchanged.
C14_ExportedPath ==
    (e_pc = "done" /\ exported.file_type # "json") =>
        /\ exported.path = returned_path
        /\ IF Recognised(path_arg)
           THEN /\ returned_path = path_arg
                /\ EndsWith(path_arg, <<".">> \o [i \in 1..Len(exported.file_type) |->
                       CASE exported.file_type = "glb" -> GlbExt[i + 1]
                         [] exported.file_type = "gltf" -> GltfExt[i + 1]
                         [] OTHER -> ObjExt[i + 1]])
           ELSE /\ exported.file_type = "glb"
                /\ returned_path = Stem(path_arg) \o GlbExt

(***************************************************************************)
(* Properties of optimize_lighting and _extract_lighting_info (checked     *)
(* under SpecLighting).                                                    *)
(***************************************************************************)
\* the step is a call of optimize_lighting
OptimizeCalled == opt_calls' # opt_calls

\* the lighting came from _extract_lighting_info
Extracted == "lighting" \in DOMAIN mesh_data /\ "direction" \in DOMAIN mesh_data.lighting

\* C15: optimize_lighting changes only the lighting sub-field of the mesh,
\* and within it only intensity and ambient: vertices, faces, vertex_colors,
\* vertex_count, face_count, bounds, center, complexity_score, quality_score
\* and the lighting direction and shadow_strength are the same before and
\* after the call.
C15_OptimizeFrame ==
    [][OptimizeCalled =>
          /\ DOMAIN mesh_data' = DOMAIN mesh_data \cup {"lighting"}
          /\ \A k \in DOMAIN mesh_data \ {"lighting"} : mesh_data'[k] = mesh_data[k]
          /\ LET before == Get(mesh_data, "lighting", EmptyDict)
                 after == mesh_data'.lighting
             IN  /\ DOMAIN after = DOMAIN before \cup {"intensity", "ambient"}
                 /\ \A k \in DOMAIN before \ {"intensity", "ambient"} :
                       after[k] = before[k]]_vars

\* a scored scene whose intensity a call has lowered
C15_Witness ==
    /\ opt_calls # <<>>
    /\ {"vertices", "faces", "vertex_colors", "vertex_count", "face_count", "bounds",
        "center", "complexity_score", "quality_score"} \subseteq DOMAIN mesh_data
    /\ Extracted
    /\ "shadow_strength" \in DOMAIN mesh_data.lighting
    /\ RLt(mesh_data.lighting.intensity,
           _extract_lighting_info(image_analysis).intensity)

ExpectedIntensity(intensity, quality) ==
    LET scaled == RMul(intensity, RAdd(Rat(1, 2), RMul(Rat(1, 2), quality)))
    IN  IF RLt(RInt(1), scaled) THEN RInt(1) ELSE scaled

ExpectedAmbient(ambient, quality) ==
    LET scaled == RMul(ambient, quality)
    IN  IF RLt(scaled, Rat(1, 10)) THEN Rat(1, 10)
        ELSE IF RLt(Rat(1, 2), scaled) THEN Rat(1, 2)
        ELSE scaled

LightingInRange ==
    Extracted =>
        /\ RLe(Rat(1, 10), mesh_data.lighting.ambient)
        /\ RLe(mesh_data.lighting.ambient, Rat(1, 2))
        /\ RLe(RInt(0), mesh_data.lighting.intensity)
        /\ RLe(mesh_data.lighting.intensity, RInt(1))

\* C16: after _extract_lighting_info followed by any number of
\* optimize_lighting calls with quality scores in [0,1], the lighting always
\* satisfies 0.1 <= ambient <= 0.5 and 0 <= intensity <= 1; each call sets
\* intensity to min(1, intensity*(0.5+0.5*quality)) and ambient to
\* max(0.1, min(0.5, ambient*quality)).
C16_LightingRanges ==
    /\ []LightingInRange
    /\ [][(OptimizeCalled /\ Extracted) =>
            LET quality == opt_calls'[Len(opt_calls')]
            IN  /\ mesh_data'.lighting.intensity =
                      ExpectedIntensity(mesh_data.lighting.intensity, quality)
                /\ mesh_data'.lighting.ambient =
                      ExpectedAmbient(mesh_data.lighting.ambient, quality)]_vars

\* three calls with quality 0 after an extraction: ambient sits on its
\* floor, the intensity has been halved three times
C16_Witness ==
    /\ Extracted
    /\ opt_calls = <<RInt(0), RInt(0), RInt(0)>>
    /\ mesh_data.lighting.ambient = Rat(1, 10)
    /\ mesh_data.lighting.intensity = Rat(1, 8)

RECURSIVE RPow(_, _)
RPow(r, k) == IF k = 0 THEN RInt(1) ELSE RMul(r, RPow(r, k - 1))

\* the intensity before the first optimize_lighting call
InitialIntensity ==
    IF Extracted
    THEN LET lum == Get(Get(image_analysis, "lighting", EmptyDict), "mean_luminance", RInt(128))
         IN  IF RLt(RInt(255), lum) THEN RInt(1) ELSE RDiv(lum, RInt(255))
    ELSE Rat(4, 5)

SameQuality == \A i, j \in 1..Len(opt_calls) : opt_calls[i] = opt_calls[j]

\* C17: optimize_lighting is not idempotent: k applications with the same
\* quality q multiply the intensity by (0.5+0.5*q)^k, so for q < 1 and
\* intensity > 0 the result of two applications differs from the result of
\* one, and every further application changes it again.
C17_OptimizeCompounds ==
    (opt_calls # <<>> /\ SameQuality) =>
        LET q == opt_calls[1]
            factor == RAdd(Rat(1, 2), RMul(Rat(1, 2), q))
            k == Len(opt_calls)
        IN  /\ mesh_data.lighting.intensity = RMul(InitialIntensity, RPow(factor, k))
            /\ (RLt(q, RInt(1)) /\ RLt(RInt(0), InitialIntensity)) =>
                  \A j \in 0..(k - 1) :
                     RLt(mesh_data.lighting.intensity,
                         RMul(InitialIntensity, RPow(factor, j)))

\* two calls with quality 1/2 on intensity 2/5: (2/5) * (3/4)^2 = 9/40
C17_Witness ==
    /\ opt_calls = <<Rat(1, 2), Rat(1, 2)>>
    /\ InitialIntensity = Rat(2, 5)
    /\ mesh_data.lighting.intensity = Rat(9, 40)

\* C18: for every image analysis, one without a lighting section included,
\* _extract_lighting_info returns a direction of unit length whose second
\* (vertical) component is negative and whose first and third components
\* come from the 2D direction's x and y, intensity = min(1, mean_luminance /
\* 255) within [0,1], ambient 0.3, and shadow_strength equal to the 2D
\* shadow ratio, or 0.2 when it is absent.
C18_ExtractedLighting ==
    (Extracted /\ opt_calls = <<>>) =>
        LET lighting == mesh_data.lighting
            section == Get(image_analysis, "lighting", EmptyDict)
            dir2d == Get(section, "estimated_light_direction", [x |-> RInt(0), y |-> RInt(-1)])
            vec == lighting.direction.vec
            lum == Get(section, "mean_luminance", RInt(128))
        IN  /\ lighting.direction.over_sqrt =
                  RAdd(RMul(vec[1], vec[1]), RAdd(RMul(vec[2], vec[2]), RMul(vec[3], vec[3])))
            /\ RLt(vec[2], RInt(0))
            /\ vec[1] = dir2d.x
            /\ vec[3] = dir2d.y
            /\ lighting.intensity = IF RLt(RInt(255), lum) THEN RInt(1) ELSE RDiv(lum, RInt(255))
            /\ RLe(RInt(0), lighting.intensity) /\ RLe(lighting.intensity, RInt(1))
            /\ lighting.ambient = Rat(3, 10)
            /\ lighting.shadow_strength =
                  IF "shadow_ratio" \in DOMAIN section THEN section.shadow_ratio ELSE Rat(1, 5)

\* the direction (-3, -1, 4) / sqrt(26) of an analysis with a lighting section
C18_Witness ==
    /\ Extracted
    /\ opt_calls = <<>>
    /\ "lighting" \in DOMAIN image_analysis
    /\ mesh_data.lighting.direction.vec = <<RInt(-3), RInt(-1), RInt(4)>>
    /\ mesh_data.lighting.direction.over_sqrt = RInt(26)
    /\ mesh_data.lighting.shadow_strength = Rat(1, 4)

(***************************************************************************)
(* Order of the stages of estimate_depth (checked under SpecDepth).        *)
(***************************************************************************)
\* C19: estimate_depth applies enhancement exactly when enhanced=true and
\* the depth model produced a result, and always before normalization; when
\* the model is unavailable, or a step of the model path raises, the result
\* of the gradient fallback is returned and enhancement is never applied to
\* it.
C19_EnhanceOnlyOnModelPath ==
    /\ \A i \in 1..Len(steps) :
          steps[i] = "enhance" =>
             /\ enhanced
             /\ depth_model = "loaded"
             /\ i = 2 /\ steps[1] = "model"
             /\ \A j \in 1..Len(steps) : steps[j] = "normalize" => i < j
             /\ \A j \in 1..Len(steps) : steps[j] # "gradient"
    /\ d_pc = "done" =>
          /\ ReturnedByNormalize =>
                /\ depth_model = "loaded"
                /\ steps = IF enhanced THEN <<"model", "enhance", "normalize">>
                           ELSE <<"model", "normalize">>
          /\ ReturnedByFallback =>
                /\ SubSeq(steps, Len(steps) - 1, Len(steps)) = <<"gradient", "normalize">>
                /\ depth_map \in BlurredOutcomes(image)
                /\ normalized = NormalizeNoGuard(depth_map)
          /\ depth_model = "None" => steps = <<"gradient", "normalize">>

\* an enhanced model result, normalized afterwards
C19_Witness ==
    /\ d_pc = "done"
    /\ enhanced
    /\ steps = <<"model", "enhance", "normalize">>

\* the model raised after enhanced=true was asked for: the gradient
\* fallback alone produced the result
C19_WitnessFallback ==
    /\ d_pc = "done"
    /\ enhanced
    /\ depth_model = "loaded"
    /\ steps = <<"model", "gradient", "normalize">>

(***************************************************************************)
(* Properties of analyze_image (checked under SpecAnalyze).                *)
(***************************************************************************)
\* the keys the five sub-metric steps contribute
MetricKeys ==
    {"sharpness", "brightness", "contrast", "noise_level", "objects", "people_count",
     "main_subjects", "lighting", "features", "camera"}

\* a sub-metric step failed: an exception reached the except clause, or
\* object detection failed inside _detect_objects
StepFailed ==
    \/ "error" \in DOMAIN a_result /\ measured.decodable
    \/ measured.decodable /\ measured.segmentation = "raises"

\* C20: when any sub-metric step of analyze_image fails, analyze_image does
\* not raise and returns a partial analysis: the metrics of the steps that
\* succeeded, together with the neutral quality_score 0.5.
C20_PartialAnalysisReturned ==
    (a_pc = "done" /\ StepFailed) =>
        /\ a_result.quality_score = Rat(1, 2)
        /\ \A k \in (MetricKeys \cap DOMAIN a_analysis) :
              k \in DOMAIN a_result /\ a_result[k] = a_analysis[k]

Saturate(r) == IF RLt(RInt(1), r) THEN RInt(1) ELSE r

Unit(r) == RLe(RInt(0), r) /\ RLe(r, RInt(1))

\* C21: for every 8-bit image (sharpness >= 0, contrast >= 0, brightness in
\* [0,255], noise equal to the Laplacian variance that is the sharpness),
\* each of the four sub-terms of _analyze_quality lies in [0,1] and
\* quality_score = 0.3*min(sharpness/1000,1) + 0.3*min(contrast/50,1) +
\* 0.2*(1-min(noise/20,1)) + 0.2*(1-|brightness-128|/128), clamped to at
\* most 1.0, hence within [0,1].
C21_QualityScoreBlend ==
    ("sharpness" \in DOMAIN a_analysis) =>
        LET sharp == Saturate(RDiv(a_analysis.sharpness, RInt(1000)))
            contr == Saturate(RDiv(a_analysis.contrast, RInt(50)))
            quiet == RSub(RInt(1), Saturate(RDiv(a_analysis.noise_level, RInt(20))))
            off == RSub(a_analysis.brightness, RInt(128))
            centred == RSub(RInt(1),
                            RDiv(IF RLt(off, RInt(0)) THEN RNeg(off) ELSE off, RInt(128)))
            blend == RAdd(RAdd(RMul(Rat(3, 10), sharp), RMul(Rat(3, 10), contr)),
                          RAdd(RMul(Rat(1, 5), quiet), RMul(Rat(1, 5), centred)))
        IN  /\ a_analysis.noise_level = a_analysis.sharpness
            /\ Unit(sharp) /\ Unit(contr) /\ Unit(quiet) /\ Unit(centred)
            /\ a_analysis.quality_score = Saturate(blend)
            /\ Unit(a_analysis.quality_score)

\* a dark, blurred, low-contrast but noise-free image: only the noise term
\* and half the contrast term contribute, 0.15 + 0.2
C21_Witness ==
    /\ "sharpness" \in DOMAIN a_analysis
    /\ a_analysis.sharpness = RInt(0)
    /\ a_analysis.contrast = RInt(25)
    /\ a_analysis.brightness = RInt(0)
    /\ a_analysis.quality_score = Rat(7, 20)

(***************************************************************************)
(* Decimation on the primary reconstruction path (checked under            *)
(* SpecDecimate).                                                          *)
(***************************************************************************)
\* _generate_mesh returned from its try block
PrimaryReturned == s_pc = "extend" /\ mesh_path = "poisson"

\* C22: on the primary reconstruction path, decimation to 25,000 faces is
\* applied exactly when the reconstructed face count exceeds 50,000 (a mesh
\* of exactly 50,000 faces is not decimated), so the returned mesh never has
\* more than 50,000 faces, and its vertex_count and face_count equal the
\* lengths of the returned vertex and face lists.
C22_DecimationThreshold ==
    PrimaryReturned =>
        /\ Len(mesh_data.faces) <= 50000
        /\ recon_faces > 50000 => Len(mesh_data.faces) <= 25000
        /\ recon_faces <= 50000 => Len(mesh_data.faces) = recon_faces
        /\ mesh_data.vertex_count = Len(mesh_data.vertices)
        /\ mesh_data.face_count = Len(mesh_data.faces)

\* a surface of exactly 50,000 faces, returned whole
C22_Witness ==
    /\ PrimaryReturned
    /\ recon_faces = 50000
    /\ mesh_data.face_count = 50000


(***************************************************************************)
(* The application's sessions (checked under SpecApp).                     *)
(***************************************************************************)
Completed(session_id) ==
    /\ session_id \in DOMAIN processing_status
    /\ processing_status[session_id].status = "completed"

\* C23: for every session that reaches status 'completed' the artifact is
\* served: the files processed/<session_id>_scene.glb and
\* processed/<session_id>_preview.jpg exist, so get_ar_scene and
\* get_preview_image answer with the file and not with 404.
C23_ArtifactServed ==
    \A session_id \in SessionIds :
        Completed(session_id) =>
            /\ GetResult(session_id).code = 200
            /\ ScenePath(session_id) \in files
            /\ PreviewPath(session_id) \in files
            /\ GetArScene(session_id).code = 200
            /\ GetPreviewImage(session_id).code = 200

ThreadsOf(session_id) == {t \in DOMAIN threads : threads[t].session_id = session_id}

RunningThreads(session_id) == {t \in ThreadsOf(session_id) : threads[t].pc # "ended"}

HandlersDone == \A h \in DOMAIN handlers : handlers[h].pc = "done"

Terminal(session_id) ==
    \/ /\ processing_status[session_id].status = "completed"
       /\ processing_status[session_id].progress = 100
    \/ processing_status[session_id].status = "error"

\* C24: once the pipeline threads of a started session have ended and the
\* start_processing handlers have answered, the status read by
\* get_processing_status is terminal: 'completed' with progress 100, or
\* 'error'; no interleaving of the handler and the thread leaves the session
\* in 'processing'.
C24_TerminalAfterThread ==
    \A session_id \in SessionIds :
        (/\ ThreadsOf(session_id) # {}
         /\ RunningThreads(session_id) = {}
         /\ HandlersDone)
        => /\ GetProcessingStatus(session_id).code = 200
           /\ Terminal(session_id)

\* C25: the quality_score stored for a completed session lies within [0,1],
\* like the scene_complexity stored with it.
C25_StoredQualityInUnit ==
    \A session_id \in DOMAIN db_results :
        /\ Unit(db_results[session_id].quality_score)
        /\ Unit(db_results[session_id].scene_complexity)

\* C26: at most one pipeline thread runs for a given session at any time,
\* and no thread is ever started for an unknown session.
C26_OneThreadPerSession ==
    /\ \A session_id \in SessionIds : Cardinality(RunningThreads(session_id)) <= 1
    /\ \A session_id \in UnknownIds : ThreadsOf(session_id) = {}

ProgressValues == {0, 20, 40, 70, 90, 100}

StatusValues == {"uploaded", "processing", "completed", "error"}

\* C27: in every reachable state of a session progress is one of 0, 20, 40,
\* 70, 90, 100, status is one of uploaded, processing, completed, error,
\* status is 'completed' exactly when progress is 100, and no step lowers
\* the progress of a session.
C27_ProgressAndStatus ==
    [][\A session_id \in DOMAIN processing_status' :
          /\ processing_status'[session_id].progress \in ProgressValues
          /\ processing_status'[session_id].status \in StatusValues
          /\ processing_status'[session_id].status = "completed"
                 <=> processing_status'[session_id].progress = 100
          /\ session_id \in DOMAIN processing_status =>
                 processing_status'[session_id].progress
                     >= processing_status[session_id].progress]_vars

\* C28: get_result answers 200 only for a session whose status is
\* 'completed', 404 for an unknown session and 400 otherwise, and with a
\* connected database every 200 answer carries the stored result of that
\* session.
C28_ResultWhenCompleted ==
    \A session_id \in RequestIds :
        LET answer == GetResult(session_id) IN
        /\ answer.code \in {200, 400, 404}
        /\ answer.code = 404 <=> session_id \notin DOMAIN processing_status
        /\ answer.code = 200 <=> Completed(session_id)
        /\ (answer.code = 200 /\ db = "connected") =>
               /\ answer.result # NoDocument
               /\ answer.result.session_id = session_id
               /\ session_id \in DOMAIN db_results

\* a completed session of a connected database, its result returned, while
\* another request is refused with 404
C28_Witness ==
    /\ db = "connected"
    /\ \E session_id \in SessionIds :
           /\ GetResult(session_id).code = 200
           /\ GetResult(session_id).result.ar_scene_path = ScenePath(session_id)
    /\ \E session_id \in UnknownIds : GetResult(session_id).code = 404


(***************************************************************************)
(* The bounds of the returned mesh (checked under Spec).                   *)
(***************************************************************************)
\* generate_3d_scene returned a mesh, not the error dict
MeshReturned == s_pc = "done" /\ "vertices" \in DOMAIN result

WithinBounds(vertex, bounds) ==
    \A c \in 1..3 : RLe(bounds[1][c], vertex[c]) /\ RLe(vertex[c], bounds[2][c])

\* C29: in every mesh returned by generate_3d_scene, with or without
\* background extension, every vertex, the appended ground-plane vertices
\* included, lies within [bounds min, bounds max] on each axis.
C29_BoundsEncloseVertices ==
    MeshReturned =>
        \A k \in 1..Len(result.vertices) :
            WithinBounds(result.vertices[k], result.bounds)

\* without the extension the bounds are those of the vertex list
BoundsEncloseWithoutExtension ==
    (MeshReturned /\ ~extend_background) =>
        \A k \in 1..Len(result.vertices) :
            WithinBounds(result.vertices[k], result.bounds)


(***************************************************************************)
(* The projections on normalized depth maps (checked under SpecProject).   *)
(***************************************************************************)
\* the maps _normalize_depth returns with values in [0,1]: normalizing is
\* idempotent, so these are its fixed points
NormalizedMap(dm) ==
    /\ \A k \in 1..Len(dm) : InUnitInterval(dm[k])
    /\ _normalize_depth(dm) = dm

\* the depth at and below which the stage removes a pixel
RemovedUpTo == IF s_pc = "scene_cloud" THEN Rat(1, 50) ELSE RInt(0)

\* the largest z of a normalized map, and the upper Z bound of the stage
LargestZ == IF s_pc = "scene_cloud" THEN RInt(5) ELSE RInt(10)

UpperZ == IF s_pc = "scene_cloud" THEN RInt(20) ELSE RInt(100)

\* C30: for every normalized depth map the upper Z bound of the validity
\* filter removes no point in either projection (z <= 10 < 100 and
\* z <= 5 < 20), every pixel of depth 0 is removed (in the scene-generation
\* path every pixel of depth <= 0.02) and no other pixel is, so a
\* non-constant normalized map yields strictly fewer points than pixels and
\* an all-zero map yields the empty point cloud.
C30_NormalizedProjection ==
    (s_pc \in {"scene_cloud", "depth_cloud"} /\ NormalizedMap(depth_map)) =>
        LET n == NumPixels(image)
            removed == {k \in 1..n : RLe(depth_map[k], RemovedUpTo)}
        IN  /\ \A k \in 1..n : RLe(StageZ(k), LargestZ) /\ RLt(LargestZ, UpperZ)
            /\ \A k \in 1..n : RLt(StageZ(k), UpperZ)
            /\ \A k \in 1..n : REq(depth_map[k], RInt(0)) => k \in removed
            /\ \A k \in removed : ~StageInRange(StageZ(k))
            /\ Len(points) = n - Cardinality(removed)
            /\ ~IsConstantMap(depth_map) => Len(points) < n
            /\ depth_map = Zeros(n) => points = <<>>

\* the scene-generation path on a non-constant normalized map that holds
\* the depths 0, 0.02 and 1: only the pixel of depth 1 is kept
C30_Witness ==
    /\ s_pc = "scene_cloud"
    /\ NormalizedMap(depth_map)
    /\ \E i, j \in 1..Len(depth_map) :
           /\ depth_map[i] = Rat(1, 50)
           /\ depth_map[j] = RInt(0)
    /\ Len(points) = 1
    /\ Len(depth_map) = 3

=============================================================================
